---------------------------- MODULE Spec2Model ----------------------------
(***************************************************************************)
(* A model of the actix-server core: the workers (src/actix-server/src/    *)
(* worker.rs), the server controller (src/actix-server/src/builder.rs)     *)
(* and the acceptor loop and wake queue that sit between them.  The        *)
(* acceptor, the wake queue, the connection counter and the boxed service  *)
(* are not among the source files at hand; they are modelled from          *)
(* sections 3, 4.1, 4.2 and 9 of the specification.                        *)
(*                                                                         *)
(* Indices: the code counts workers and tokens from 0, the model from 1    *)
(* (TLA+ sequences), so slot services[t] is the code's services[t - 1].    *)
(*                                                                         *)
(* A worker's poll is modelled by its passes: one step of WorkerPoll is    *)
(* one pass through ServerWorker::poll, up to the next self.poll(cx), the  *)
(* next turn of the Available loop, or the return.  pc records where the   *)
(* worker is: "starting" (factories not yet joined), "parked" (poll        *)
(* returned Pending), "entry" (about to run poll from its top), "loop"     *)
(* (about to run the next turn of the Available loop), "done" (poll        *)
(* returned Ready) and "dead" (the worker future was dropped: a panic or   *)
(* the arbiter stopped).  Nothing else of the same worker thread runs      *)
(* while pc is "entry" or "loop"; the other threads do.                    *)
(***************************************************************************)
EXTENDS Integers, Sequences, FiniteSets, TLC

\* ------------------------------------------------------------- bounds
NumWorkers == 2
NumTokens == 2
MaxConcurrent == 2
MaxConns == 3
MaxWake == 3
MaxCmds == 3
StopMaxConns == 2
StopMaxCmds == 2
LiveMaxConns == 1
LiveWorkers == 1
ShutdownMaxCmds == 1
RestartMaxConns == 2
CapClients == 5
FaultMaxConns == 3
CtlMaxCmds == 3
ExitMaxCmds == 2
MaxAddrs == 2
FailMaxConns == 2
LoopMaxConns == 1
NumServices == 3
NumErrors == 2
MaxPolls == 4
NumAddrs == 2
NumStreams == 2
TwiceMaxConns == 1
MaxGen == 1
MaxInst == 1

Idx == 1..NumWorkers
Tokens == 1..NumTokens
Gens == 0..MaxGen

VARIABLES
    wk,         \* worker idx -> the ServerWorker running at that index
    avail,      \* idx -> generation -> the AtomicBool of that worker's WorkerAvailability
    result,     \* idx -> the oneshot of the StopCommand sent to that worker
    wakeq,      \* the wake queue: WakerInterest values, oldest first
    ring,       \* the acceptor's worker handles, in insertion order
    next,       \* the acceptor's cursor into ring
    registered, \* token -> the listener is registered with the poller
    held,       \* token -> the stream held for lack of an available worker
    paused,     \* the acceptor's pause flag
    regBefore,  \* history: registered, as it was when the acceptor was last paused
    accRunning, \* the acceptor thread has not exited
    osq,        \* token -> connections waiting in the OS accept queue
    nextId,     \* the next connection's identity (accept order)
    cmds,       \* the controller's command channel
    issued,     \* number of commands the server handle has issued
    notify,     \* number of Notify senders the controller holds
    exit,       \* ServerBuilder::exit
    stops,      \* the tasks spawned by the Stop handler, in spawn order
    sysStopped, \* System::current().stop() was called
    threads,    \* ServerBuilder::threads, the number of workers run() starts
    acks,       \* number of Pause and Resume acknowledgements the controller has sent
    builder,    \* ServerBuilder: token, sockets, services, and what bind returned last
    result2,    \* idx -> the oneshot of a second StopCommand sent to that worker
    futures     \* the ApplyTransformFuture and the connect response under poll

vars == <<wk, avail, result, result2, wakeq, ring, next, registered, held, paused, regBefore,
          accRunning, osq, nextId, cmds, issued, notify, exit,
          stops, sysStopped, threads, acks, builder, futures>>

accVars == <<ring, next, registered, held, paused, regBefore, accRunning>>
ctlVars == <<cmds, issued, notify, exit, stops, sysStopped, threads, acks, builder, futures>>

None == [id |-> 0, token |-> 0]

\* ------------------------------------------------------------ handles
Handle(i, g) == [idx |-> i, gen |-> g]

\* WorkerHandle::available that reads every flag as true
HandleAvailableAlways(h) == TRUE


\* WorkerHandle::available
HandleAvailable(h) == avail[h.idx][h.gen]

\* A channel whose sends never fail
ChannelOpenAlways(h) == TRUE

\* The receiving ends live in the ServerWorker: a send fails once it is dropped.
ChannelOpen(h) == wk[h.idx].gen = h.gen /\ wk[h.idx].pc \notin {"done", "dead"}

\* The wake-queue interests.  WorkerAvailable carries no data in the code; the
\* handle is a tag of the model, read by no action.
WorkerAvailable(h) == [kind |-> "WorkerAvailable", h |-> h, graceful |-> FALSE, k |-> 0]
WorkerInterest(h) == [kind |-> "Worker", h |-> h, graceful |-> FALSE, k |-> 0]
PauseInterest == [kind |-> "Pause", h |-> Handle(0, 0), graceful |-> FALSE, k |-> 0]
ResumeInterest == [kind |-> "Resume", h |-> Handle(0, 0), graceful |-> FALSE, k |-> 0]
StopInterest(g, k) == [kind |-> "Stop", h |-> Handle(0, 0), graceful |-> g, k |-> k]

\* WakerQueue::wake (section 4.1).  The queue outlives the acceptor (section
\* 9): an interest pushed after the acceptor thread has exited stays in it,
\* with what it carries, and nothing takes it.
Wake(q, interest) == Append(q, interest)

\* ------------------------------------------------------------- worker
\* A worker-local view: the worker, its flag, the wake queue, its reply channel.
\* ret is how the pass ends.
Local(i) == [w |-> wk[i], av |-> avail[i][wk[i].gen], wq |-> wakeq,
             res |-> result[i], res2 |-> result2[i], ret |-> "cont"]

\* WorkerAvailability::set that never wakes the acceptor
SetNoWake(L, h, val) == [L EXCEPT !.av = val]

\* WorkerAvailability::set that wakes the acceptor on every change of the flag
SetWakeOnChange(L, h, val) ==
    [L EXCEPT !.av = val,
              !.wq = IF L.av # val THEN Wake(@, WorkerAvailable(h)) ELSE @]

\* WorkerAvailability::set
AvailabilitySet(L, h, val) ==
    [L EXCEPT !.av = val,
              !.wq = IF ~L.av /\ val THEN Wake(@, WorkerAvailable(h)) ELSE @]

\* ServerWorker::shutdown that always winds the services down gracefully
ShutdownServicesStopping(services, force) ==
    [t \in DOMAIN services |->
        IF services[t].status = "Available"
        THEN [services[t] EXCEPT !.status = "Stopping"]
        ELSE services[t]]


\* ServerWorker::shutdown
ShutdownServices(services, force) ==
    [t \in DOMAIN services |->
        IF services[t].status = "Available"
        THEN [services[t] EXCEPT !.status = IF force THEN "Stopped" ELSE "Stopping"]
        ELSE services[t]]

\* Counter::available
CounterAvailable(w) == w.conns < MaxConcurrent

Polled(s) == s.status \in {"Available", "Unavailable"}

Max(S) == CHOOSE x \in S : \A y \in S : y <= x

\* ServerWorker::check_readiness without the counter
CheckReadinessNoCap(w) ==
    LET polled == {t \in DOMAIN w.services : Polled(w.services[t])}
        errs == {t \in polled : w.ready[t] = "Err"}
    IN [services |->
            [t \in DOMAIN w.services |->
                IF t \notin polled THEN w.services[t]
                ELSE [w.services[t] EXCEPT !.status =
                        CASE w.ready[t] = "Ok" -> "Available"
                          [] w.ready[t] = "Pending" -> "Unavailable"
                          [] OTHER -> "Failed"]],
        ready |-> \A t \in polled : w.ready[t] # "Pending",
        failed |-> IF errs = {} THEN 0 ELSE Max(errs)]

\* ServerWorker::check_readiness: the statuses after the round, Ok(ready), and the
\* token of Err((token, factory)), 0 when the round returned Ok.  failed is
\* overwritten by every failing slot, so the last one is returned.
CheckReadiness(w) ==
    LET polled == {t \in DOMAIN w.services : Polled(w.services[t])}
        errs == {t \in polled : w.ready[t] = "Err"}
    IN [services |->
            [t \in DOMAIN w.services |->
                IF t \notin polled THEN w.services[t]
                ELSE [w.services[t] EXCEPT !.status =
                        CASE w.ready[t] = "Ok" -> "Available"
                          [] w.ready[t] = "Pending" -> "Unavailable"
                          [] OTHER -> "Failed"]],
        ready |-> CounterAvailable(w) /\ \A t \in polled : w.ready[t] # "Pending",
        failed |-> IF errs = {} THEN 0 ELSE Max(errs)]

\* ServerWorker::restart_service
RestartService(w, token, idx) ==
    [w EXCEPT !.services[token].status = "Restarting",
              !.state = "Restarting",
              !.rs = [idx |-> idx, token |-> token],
              !.fut = "Pending"]

RECURSIVE TokensOf(_, _, _)
\* The tokens of 1..t that factory f serves, in token order
TokensOf(factories, f, t) ==
    IF t = 0 THEN <<>>
    ELSE IF factories[t] = f THEN Append(TokensOf(factories, f, t - 1), t)
    ELSE TokensOf(factories, f, t - 1)

\* ServerBuilder::services for a layout: the factories in the order they were
\* pushed, each with the tokens it serves
ServicesOf(factories) ==
    [f \in 1..Max({factories[t] : t \in DOMAIN factories}) |->
        TokensOf(factories, f, NumTokens)]

\* The tokens of the services a factory's create() yields, in order: a factory
\* made by bind serves one token, a configured factory every token it bound.
FactoryOutput(w, f) == TokensOf(w.factories, f, NumTokens)

\* WorkerService::created
Created(w, token) ==
    [w EXCEPT !.services[token].status = "Unavailable",
              !.services[token].inst = @ + 1,
              !.ready[token] = "Ok"]

\* What the drop of the ServerWorker (its future completed, panicked or was
\* cancelled) releases: both receivers, and with rx2 the reply sender of a
\* StopCommand not yet answered.
DropWorker(L) ==
    [L EXCEPT !.w.rx = <<>>, !.w.rx2 = <<>>, !.w.tx = FALSE,
              !.res = IF @ = "open" THEN "dropped" ELSE @,
              !.res2 = IF @ = "open" THEN "dropped" ELSE @]

\* oneshot::Sender::send through the sender of the n-th StopCommand
Reply(L, n, val) == IF n = 2 THEN [L EXCEPT !.res2 = val] ELSE [L EXCEPT !.res = val]

\* ServerWorker::poll, the StopCommand handler leaving the availability flag alone
StopCommandKeepsFlag(L, h) ==
    LET cmd == Head(L.w.rx2)
        L1 == [L EXCEPT !.w.rx2 = Tail(@)]
    IN IF L1.w.conns = 0
       THEN [Reply(L1, cmd.n, "true") EXCEPT !.ret = "ready"]
       ELSE IF cmd.graceful
       THEN [(IF L1.w.tx THEN Reply(L1, L1.w.txn, "dropped") ELSE L1) EXCEPT
                       !.w.services = ShutdownServices(@, FALSE),
                       !.w.state = "Shutdown",
                       !.w.tx = TRUE,
                       !.w.txn = cmd.n,
                       !.w.t2 = FALSE,
                       !.ret = "cont"]
       ELSE [Reply(L1, cmd.n, "false") EXCEPT !.w.services = ShutdownServices(@, TRUE),
                                              !.ret = "ready"]


\* ServerWorker::poll, the StopCommand handler.  A graceful command with
\* connections left overwrites the state: the sender an old
\* WorkerState::Shutdown held is dropped.
StopCommand(L, h) ==
    LET cmd == Head(L.w.rx2)
        L1 == AvailabilitySet([L EXCEPT !.w.rx2 = Tail(@)], h, FALSE)
    IN IF L1.w.conns = 0
       THEN [Reply(L1, cmd.n, "true") EXCEPT !.ret = "ready"]
       ELSE IF cmd.graceful
       THEN [(IF L1.w.tx THEN Reply(L1, L1.w.txn, "dropped") ELSE L1) EXCEPT
                       !.w.services = ShutdownServices(@, FALSE),
                       !.w.state = "Shutdown",
                       !.w.tx = TRUE,
                       !.w.txn = cmd.n,
                       !.w.t2 = FALSE,
                       !.ret = "cont"]
       ELSE [Reply(L1, cmd.n, "false") EXCEPT !.w.services = ShutdownServices(@, TRUE),
                                              !.ret = "ready"]

\* ServerWorker::poll, WorkerState::Unavailable
PollUnavailable(L, h) ==
    LET cr == CheckReadiness(L.w)
        W1 == [L.w EXCEPT !.services = cr.services]
    IN IF cr.failed # 0
       THEN [L EXCEPT !.w = RestartService(W1, cr.failed, W1.services[cr.failed].factory),
                      !.ret = "repoll"]
       ELSE IF cr.ready
       THEN [AvailabilitySet([L EXCEPT !.w = [W1 EXCEPT !.state = "Available"]], h, TRUE)
                EXCEPT !.ret = "repoll"]
       ELSE [L EXCEPT !.w = W1, !.ret = "pending"]

\* ServerWorker::poll, WorkerState::Restarting
PollRestarting(L, h) ==
    IF L.w.fut = "Pending" THEN [L EXCEPT !.ret = "pending"]
    ELSE IF L.w.fut = "Err" \/ FactoryOutput(L.w, L.w.rs.idx) = <<>>
    THEN [L EXCEPT !.ret = "panic"]
    ELSE LET token == Head(FactoryOutput(L.w, L.w.rs.idx))
         IN [L EXCEPT !.w = [Created(L.w, token) EXCEPT !.state = "Unavailable",
                                                         !.fut = "None"],
                      !.ret = "repoll"]

\* ServerWorker::poll, WorkerState::Shutdown with the deadline never looked at
PollShutdownNoDeadline(L, h) ==
    IF L.w.conns = 0
    THEN [Reply(L, L.w.txn, "true") EXCEPT !.w.tx = FALSE, !.w.arb = "stopping",
                                        !.ret = "ready"]
    ELSE [L EXCEPT !.ret = "pending"]

\* ServerWorker::poll, WorkerState::Shutdown with the deadline looked at first
PollShutdownDeadlineFirst(L, h) ==
    IF L.w.t2
    THEN [Reply(L, L.w.txn, "false") EXCEPT !.w.tx = FALSE,
                   !.w.services = ShutdownServices(@, TRUE),
                   !.w.arb = "stopping", !.ret = "ready"]
    ELSE IF L.w.conns = 0
    THEN [Reply(L, L.w.txn, "true") EXCEPT !.w.tx = FALSE, !.w.arb = "stopping",
                                        !.ret = "ready"]
    ELSE [L EXCEPT !.ret = "pending"]


\* ServerWorker::poll, WorkerState::Shutdown
PollShutdown(L, h) ==
    IF L.w.conns = 0
    THEN [Reply(L, L.w.txn, "true") EXCEPT !.w.tx = FALSE, !.w.arb = "stopping",
                                        !.ret = "ready"]
    ELSE IF L.w.t2
    THEN [Reply(L, L.w.txn, "false") EXCEPT !.w.tx = FALSE,
                   !.w.services = ShutdownServices(@, TRUE),
                   !.w.arb = "stopping", !.ret = "ready"]
    ELSE [L EXCEPT !.ret = "pending"]

\* ServerWorker::poll, the connection dispatch, taking no counter guard
DispatchNoGuard(w, panics) ==
    LET msg == Head(w.rx)
    IN [w EXCEPT !.rx = Tail(@),
                 !.inflight = IF panics THEN @ ELSE @ \cup {msg.id}]

\* ServerWorker::poll, the connection dispatch: the guard is taken, then call
\* is invoked; the boxed service spawns the call's future, which owns the
\* guard.  A call that panics unwinds through poll and drops the guard.
Dispatch(w, panics) ==
    LET msg == Head(w.rx)
    IN [w EXCEPT !.rx = Tail(@),
                 !.conns = IF panics THEN @ ELSE @ + 1,
                 !.inflight = IF panics THEN @ ELSE @ \cup {msg.id}]

\* ServerWorker::poll, WorkerState::Available, leaving the flag as it is when
\* a service is not ready
PollAvailableKeepsFlag(L, h, closed, panics) ==
    LET cr == CheckReadiness(L.w)
        W1 == [L.w EXCEPT !.services = cr.services]
    IN IF cr.failed # 0
       THEN [AvailabilitySet(
                [L EXCEPT !.w = RestartService(W1, cr.failed, W1.services[cr.failed].factory)],
                h, FALSE)
                EXCEPT !.ret = "repoll"]
       ELSE IF ~cr.ready
       THEN [L EXCEPT !.w = [W1 EXCEPT !.state = "Unavailable"], !.ret = "repoll"]
       ELSE IF W1.rx # <<>>
       THEN IF panics \/ Head(W1.rx).token \notin DOMAIN W1.services
            THEN [L EXCEPT !.w = Dispatch(W1, TRUE), !.ret = "panic"]
            ELSE [L EXCEPT !.w = Dispatch(W1, FALSE), !.ret = "loop"]
       ELSE [L EXCEPT !.w = W1, !.ret = IF closed THEN "ready" ELSE "pending"]


\* ServerWorker::poll, WorkerState::Available, one turn of the loop.  closed:
\* every sender of the connection channel has been dropped.
PollAvailable(L, h, closed, panics) ==
    LET cr == CheckReadiness(L.w)
        W1 == [L.w EXCEPT !.services = cr.services]
    IN IF cr.failed # 0
       THEN [AvailabilitySet(
                [L EXCEPT !.w = RestartService(W1, cr.failed, W1.services[cr.failed].factory)],
                h, FALSE)
                EXCEPT !.ret = "repoll"]
       ELSE IF ~cr.ready
       THEN [AvailabilitySet([L EXCEPT !.w = W1], h, FALSE)
                EXCEPT !.w.state = "Unavailable", !.ret = "repoll"]
       ELSE IF W1.rx # <<>>
       THEN IF panics \/ Head(W1.rx).token \notin DOMAIN W1.services
            THEN [L EXCEPT !.w = Dispatch(W1, TRUE), !.ret = "panic"]
            ELSE [L EXCEPT !.w = Dispatch(W1, FALSE), !.ret = "loop"]
       ELSE [L EXCEPT !.w = W1, !.ret = IF closed THEN "ready" ELSE "pending"]

\* ServerWorker::poll, the match on the state, serving on in Shutdown
PollStateServesOn(L, h, closed, panics) ==
    CASE L.w.state = "Unavailable" -> PollUnavailable(L, h)
      [] L.w.state = "Restarting" -> PollRestarting(L, h)
      [] OTHER -> PollAvailable(L, h, closed, panics)


\* ServerWorker::poll, the match on the state
PollState(L, h, closed, panics) ==
    CASE L.w.state = "Unavailable" -> PollUnavailable(L, h)
      [] L.w.state = "Restarting" -> PollRestarting(L, h)
      [] L.w.state = "Shutdown" -> PollShutdown(L, h)
      [] OTHER -> PollAvailable(L, h, closed, panics)

\* ServerWorker::poll, one pass
PollPass(L, h, closed, panics) ==
    IF L.w.pc = "loop" THEN PollAvailable(L, h, closed, panics)
    ELSE IF L.w.rx2 # <<>>
    THEN LET L1 == StopCommand(L, h)
         IN IF L1.ret = "ready" THEN L1 ELSE PollState(L1, h, closed, panics)
    ELSE PollState(L, h, closed, panics)

\* How a pass leaves the worker: parked, re-polling, looping, or dropped.
Finish(L) ==
    CASE L.ret = "pending" -> [L EXCEPT !.w.pc = "parked"]
      [] L.ret = "repoll" -> [L EXCEPT !.w.pc = "entry"]
      [] L.ret = "loop" -> [L EXCEPT !.w.pc = "loop"]
      [] L.ret = "ready" -> DropWorker([L EXCEPT !.w.pc = "done"])
      [] OTHER -> DropWorker([L EXCEPT !.w.pc = "dead"])

\* Every sender of the worker's connection channel is gone: the handle is
\* neither in the acceptor's ring nor on its way there.
NoSenders(h) ==
    /\ \A p \in DOMAIN ring : ring[p] # h
    /\ \A p \in DOMAIN wakeq : wakeq[p] # WorkerInterest(h)

\* ServerBuilder::bind: every listener gets a token and a factory of its own
PerToken == [t \in Tokens |-> t]

\* ServerBuilder::configure: one factory serves every listener it bound
Configured == [t \in Tokens |-> 1]

\* What poll_ready of a new instance answers first
AllReady == [t \in Tokens |-> "Ok"]

\* A new ServerWorker, as ServerWorker::start builds it from the factories;
\* factories[t] is the index of the factory that serves token t.
NewWorker(g, factories) ==
    [gen |-> g, pc |-> "starting", state |-> "Unavailable", services |-> <<>>,
     factories |-> factories,
     ready |-> AllReady, conns |-> 0, rx |-> <<>>, rx2 |-> <<>>,
     rs |-> [idx |-> 0, token |-> 0], fut |-> "None", tx |-> FALSE, txn |-> 1,
     t2 |-> FALSE,
     inflight |-> {}, arb |-> "running"]

Alive(w) == w.pc \notin {"done", "dead"}

\* ServerWorker::start, a factory's items pushed in order: the token of each
\* must be the index of the slot it gets, or the task panics (ok is FALSE).
RECURSIVE PushItems(_, _, _)
PushItems(acc, f, tokens) ==
    IF tokens = <<>> \/ ~acc.ok THEN acc
    ELSE IF Head(tokens) # Len(acc.services) + 1 THEN [acc EXCEPT !.ok = FALSE]
    ELSE PushItems([acc EXCEPT !.services =
                        Append(@, [factory |-> f, status |-> "Unavailable", inst |-> 0])],
                   f, Tail(tokens))

\* ServerWorker::start, the loop over the items of the factories from f on
RECURSIVE InstallServices(_, _, _)
InstallServices(factories, f, acc) ==
    IF f > Max({factories[t] : t \in DOMAIN factories}) THEN acc
    ELSE InstallServices(factories, f + 1,
                         PushItems(acc, f, TokensOf(factories, f, NumTokens)))

\* ServerWorker::start, the spawned task once join_all has resolved: the
\* services are pushed in token order, or the arbiter is told to stop; either
\* way wrk.await then polls the worker.
WorkerStarted(i, ok) ==
    /\ wk[i].pc = "starting"
    /\ ok \/ wk[i].gen < MaxGen
    /\ LET res == InstallServices(wk[i].factories, 1, [services |-> <<>>, ok |-> TRUE])
       IN wk' = [wk EXCEPT ![i].pc = IF ok /\ ~res.ok THEN "dead" ELSE "entry",
                           ![i].services = IF ok THEN res.services ELSE <<>>,
                           ![i].arb = IF ok THEN "running" ELSE "stopping"]
    /\ UNCHANGED <<avail, result, result2, wakeq, accVars, osq, nextId, ctlVars>>

\* One pass of ServerWorker::poll
PollWith(i, panics) ==
    LET h == Handle(i, wk[i].gen)
        L == Finish(PollPass(Local(i), h, NoSenders(h), panics))
    IN /\ Len(L.wq) <= MaxWake
       /\ wk' = [wk EXCEPT ![i] = L.w]
       /\ avail' = [avail EXCEPT ![i][wk[i].gen] = L.av]
       /\ wakeq' = L.wq
       /\ result' = [result EXCEPT ![i] = L.res]
       /\ result2' = [result2 EXCEPT ![i] = L.res2]
       /\ UNCHANGED <<accVars, osq, nextId, ctlVars>>

WorkerPoll(i) ==
    /\ wk[i].pc \in {"parked", "entry", "loop"}
    /\ PollWith(i, FALSE)

\* A pass in which the service's call panics (tests/test_server.rs, worker_restart)
WorkerPollPanics(i) ==
    /\ wk[i].pc \in {"parked", "entry", "loop"}
    /\ wk[i].gen < MaxGen
    /\ PollPass(Local(i), Handle(i, wk[i].gen), FALSE, FALSE).ret = "loop"
    /\ PollWith(i, TRUE)

\* Service::poll_ready of the instance in slot t starts to answer r
ServiceReadiness(i, t, r) ==
    /\ Alive(wk[i])
    /\ t \in DOMAIN wk[i].services
    /\ wk[i].ready[t] # r
    /\ r = "Err" => wk[i].services[t].inst < MaxInst
    /\ wk' = [wk EXCEPT ![i].ready[t] = r]
    /\ UNCHANGED <<avail, result, result2, wakeq, accVars, osq, nextId, ctlVars>>

\* The future of factory.create() held by WorkerState::Restarting resolves
FactoryResolves(i, r) ==
    /\ Alive(wk[i])
    /\ wk[i].state = "Restarting"
    /\ wk[i].fut = "Pending"
    /\ r = "Err" => wk[i].gen < MaxGen
    /\ wk' = [wk EXCEPT ![i].fut = r]
    /\ UNCHANGED <<avail, result, result2, wakeq, accVars, osq, nextId, ctlVars>>

\* The future of a dispatched call resolves and drops its counter guard.  It
\* runs on the worker's own executor, so never in the middle of a poll.
CallCompletes(i, c) ==
    /\ wk[i].pc \in {"parked", "done", "dead"}
    /\ c \in wk[i].inflight
    /\ wk' = [wk EXCEPT ![i].inflight = @ \ {c}, ![i].conns = @ - 1]
    /\ UNCHANGED <<avail, result, result2, wakeq, accVars, osq, nextId, ctlVars>>

\* The shutdown_timeout timer of WorkerState::Shutdown fires
DeadlineFires(i) ==
    /\ Alive(wk[i])
    /\ wk[i].state = "Shutdown"
    /\ ~wk[i].t2
    /\ wk' = [wk EXCEPT ![i].t2 = TRUE]
    /\ UNCHANGED <<avail, result, result2, wakeq, accVars, osq, nextId, ctlVars>>

\* Arbiter::stop takes effect: the worker's runtime is dropped with every task
\* on it, the worker and the calls in flight.
ArbiterExit(i) ==
    /\ wk[i].arb = "stopping"
    /\ wk[i].pc \in {"parked", "done", "dead"}
    /\ LET L == DropWorker(Local(i))
       IN /\ wk' = [wk EXCEPT ![i] = [L.w EXCEPT !.arb = "stopped",
                                                 !.pc = IF @ = "parked" THEN "dead" ELSE @,
                                                 !.inflight = {},
                                                 !.conns = 0]]
          /\ result' = [result EXCEPT ![i] = L.res]
          /\ result2' = [result2 EXCEPT ![i] = L.res2]
    /\ UNCHANGED <<avail, wakeq, accVars, osq, nextId, ctlVars>>

\* ----------------------------------------------------------- acceptor
\* WorkerHandle::send putting the message first
SendFront(rx, msg) == <<msg>> \o rx

\* WorkerHandle::send: the message joins the worker's unbounded channel
Send(rx, msg) == Append(rx, msg)

\* WorkerHandle::stop, as seen from the sender: the StopCommand joins the stop
\* channel and its receiver waits, or the send fails and the command, dropped
\* with its reply sender, resolves the receiver at once.
WorkerHandleStop(S, h, graceful) ==
    IF ChannelOpen(h)
    THEN [S EXCEPT !.rx2[h.idx] = Append(@, [graceful |-> graceful, n |-> 1]),
                   !.res[h.idx] = "open"]
    ELSE [S EXCEPT !.res[h.idx] = "dropped"]

RemoveAt(q, p) == SubSeq(q, 1, p - 1) \o SubSeq(q, p + 1, Len(q))

\* What a dispatch works on: the ring and cursor, the workers' channels, the
\* faults found, the sends made, and the listeners.
AccState ==
    [ring |-> ring, next |-> next, rx |-> [i \in Idx |-> wk[i].rx],
     faulted |-> <<>>, sent |-> FALSE,
     held |-> held, registered |-> registered]

RECURSIVE Scan(_, _, _)
\* Section 4.2, step 3: from the cursor, at most one revolution; the first
\* worker whose flag reads true gets the connection and the cursor moves past
\* it; a worker whose channel is closed leaves the ring and is reported.
Scan(S, conn, n) ==
    IF n = 0 \/ S.ring = <<>> THEN [S EXCEPT !.sent = FALSE]
    ELSE LET pos == IF S.next > Len(S.ring) THEN 1 ELSE S.next
             h == S.ring[pos]
         IN IF ~HandleAvailable(h)
            THEN Scan([S EXCEPT !.next = (pos % Len(S.ring)) + 1], conn, n - 1)
            ELSE IF ChannelOpen(h)
            THEN [S EXCEPT !.rx[h.idx] = Send(@, conn),
                           !.next = (pos % Len(S.ring)) + 1,
                           !.sent = TRUE]
            ELSE Scan([S EXCEPT !.ring = RemoveAt(@, pos),
                                !.next = pos,
                                !.faulted = Append(@, h.idx)],
                      conn, n - 1)

DispatchConn(S, conn) == Scan(S, conn, Len(S.ring))

\* Section 4.2, step 3, for the connection just accepted on listener t: a
\* stream already held for t goes first (FIFO per listener); the connection
\* that finds no worker is held and the listener deregistered; with the one
\* slot taken the new connection is dropped.
DispatchAccepted(S, t, conn) ==
    LET S1 == IF S.held[t] # None THEN DispatchConn(S, S.held[t])
              ELSE [S EXCEPT !.sent = TRUE]
    IN IF ~S1.sent THEN [S1 EXCEPT !.registered[t] = FALSE]
       ELSE LET S2 == DispatchConn([S1 EXCEPT !.held[t] = None], conn)
            IN IF S2.sent THEN S2
               ELSE [S2 EXCEPT !.held[t] = conn, !.registered[t] = FALSE]

RECURSIVE RetryHeld(_, _)
\* Section 4.2, step 3, on WorkerAvailable: every held stream is retried and
\* its listener registered again once the stream has found a worker.
RetryHeld(S, t) ==
    IF t > NumTokens THEN S
    ELSE IF S.held[t] = None THEN RetryHeld(S, t + 1)
    ELSE LET S1 == DispatchConn(S, S.held[t])
         IN IF S1.sent
            THEN RetryHeld([S1 EXCEPT !.held[t] = None, !.registered[t] = TRUE], t + 1)
            ELSE RetryHeld(S1, t + 1)

WorkerFaulted(i) ==
    [kind |-> "WorkerFaulted", graceful |-> FALSE, completion |-> FALSE, idx |-> i,
     sig |-> "None"]

FaultCmds(faulted) == [p \in DOMAIN faulted |-> WorkerFaulted(faulted[p])]

\* The acceptor's state after a dispatch
Dispatched(S) ==
    /\ ring' = S.ring
    /\ next' = S.next
    /\ held' = S.held
    /\ registered' = S.registered
    /\ wk' = [i \in Idx |-> [wk[i] EXCEPT !.rx = S.rx[i]]]
    /\ cmds' = cmds \o FaultCmds(S.faulted)

RECURSIVE Waiting(_)
\* The connections waiting in the OS queues of listeners 1..t
Waiting(t) == IF t = 0 THEN 0 ELSE osq[t] + Waiting(t - 1)

\* A client connects to listener t: the connection waits in the OS queue.
\* max bounds the connections of the run.
ClientConnects(t, max) ==
    /\ nextId + Waiting(NumTokens) <= max
    /\ osq' = [osq EXCEPT ![t] = @ + 1]
    /\ UNCHANGED <<wk, avail, result, result2, wakeq, accVars, nextId, ctlVars>>

\* Section 4.2, step 2: a listener is ready; the acceptor accepts one
\* connection, tags it with the listener's token and dispatches it.
AcceptorAccept(t) ==
    /\ accRunning
    /\ registered[t]
    /\ osq[t] > 0
    /\ osq' = [osq EXCEPT ![t] = @ - 1]
    /\ nextId' = nextId + 1
    /\ Dispatched(DispatchAccepted(AccState, t, [id |-> nextId, token |-> t]))
    /\ UNCHANGED <<avail, result, result2, wakeq, paused, regBefore, accRunning,
                   issued, notify, exit, stops, sysStopped, threads, acks, builder, futures>>

\* Section 4.2, step 2, Pause: deregister all listeners.
ApplyPause ==
    /\ paused' = TRUE
    /\ regBefore' = IF paused THEN regBefore ELSE registered
    /\ registered' = [t \in Tokens |-> FALSE]
    /\ UNCHANGED <<wk, ring, next, held, accRunning, cmds, stops, result, result2>>

\* Section 4.2, step 2, Resume: re-register all listeners.
ApplyResume ==
    /\ paused' = FALSE
    /\ UNCHANGED regBefore
    /\ registered' = [t \in Tokens |-> TRUE]
    /\ UNCHANGED <<wk, ring, next, held, accRunning, cmds, stops, result, result2>>

\* Section 4.2, step 2, Worker(h): append to the ring.
ApplyWorker(h) ==
    /\ ring' = Append(ring, h)
    /\ UNCHANGED <<wk, next, registered, held, paused, regBefore, accRunning, cmds,
                   stops, result, result2>>

\* WorkerAvailable applied with the pause flag ignored
ApplyWorkerAvailableAlways ==
    /\ Dispatched(RetryHeld(AccState, 1))
    /\ UNCHANGED <<paused, regBefore, accRunning, stops, result, result2>>

\* Section 4.2, step 2, WorkerAvailable: no structural change; the held
\* streams are retried, unless the acceptor is paused.
ApplyWorkerAvailable ==
    /\ IF paused
       THEN UNCHANGED <<wk, ring, next, registered, held, cmds>>
       ELSE Dispatched(RetryHeld(AccState, 1))
    /\ UNCHANGED <<paused, regBefore, accRunning, stops, result, result2>>

RECURSIVE StopAll(_, _, _)
\* WorkerHandle::stop for every handle of the ring, in ring order
StopAll(S, handles, graceful) ==
    IF handles = <<>> THEN S
    ELSE StopAll(WorkerHandleStop(S, Head(handles), graceful), Tail(handles), graceful)

\* Section 4.2, step 2, Stop(s): deregister the listeners, send every worker
\* of the ring its stop command, return the receivers through s, exit the
\* thread.  What the thread owned is dropped: the ring and the held streams.
\* The queue is shared: the interests behind the Stop stay in it.
ApplyStop(s) ==
    LET S == StopAll([rx2 |-> [i \in Idx |-> wk[i].rx2], res |-> result],
                     ring, s.graceful)
    IN /\ wk' = [i \in Idx |-> [wk[i] EXCEPT !.rx2 = S.rx2[i]]]
       /\ result' = S.res
       /\ stops' = [k \in DOMAIN stops |->
                      IF k = s.k
                      THEN [stops[k] EXCEPT !.ao = "sent",
                                            !.rxs = [p \in DOMAIN ring |-> ring[p].idx],
                                            !.list = [p \in DOMAIN ring |-> ring[p].idx]]
                      ELSE stops[k]]
       /\ registered' = [t \in Tokens |-> FALSE]
       /\ held' = [t \in Tokens |-> None]
       /\ ring' = <<>>
       /\ next' = 1
       /\ accRunning' = FALSE
       /\ UNCHANGED <<paused, regBefore, cmds, result2>>

\* Section 4.2, step 2: the waker fired; the acceptor takes the next interest
\* off the wake queue and applies it.
AcceptorInterest ==
    /\ accRunning
    /\ wakeq # <<>>
    /\ LET x == Head(wakeq)
       IN /\ CASE x.kind = "Pause" -> ApplyPause
            [] x.kind = "Resume" -> ApplyResume
            [] x.kind = "Worker" -> ApplyWorker(x.h)
            [] x.kind = "WorkerAvailable" -> ApplyWorkerAvailable
            [] OTHER -> ApplyStop(x)
          /\ wakeq' = Tail(wakeq)
    /\ UNCHANGED <<avail, osq, nextId, issued, notify, exit, sysStopped, threads, acks,
                   builder, futures>>

\* --------------------------------------------------------- controller
Command(kind, graceful, completion) ==
    [kind |-> kind, graceful |-> graceful, completion |-> completion, idx |-> 0,
     sig |-> "None"]

\* ServerCommand::Signal(sig)
SignalCommand(sig) == [Command("Signal", FALSE, FALSE) EXCEPT !.sig = sig]

\* The signals the signal source forwards
Signals == {"Hup", "Int", "Term", "Quit"}

\* Signals::poll: a signal arrives and the signal source puts it on the
\* controller's channel.  max bounds the commands of the run.
IssueSignal(sig, max) ==
    /\ issued < max
    /\ issued' = issued + 1
    /\ cmds' = Append(cmds, SignalCommand(sig))
    /\ UNCHANGED <<wk, avail, result, result2, wakeq, accVars, osq, nextId,
                   notify, exit, stops, sysStopped, threads, acks, builder, futures>>

\* Server::pause, resume, stop(graceful) and the Notify of Server's future:
\* the handle puts a command on the controller's channel.  max bounds the
\* commands of the run.
Issue(kind, graceful, max) ==
    /\ issued < max
    /\ issued' = issued + 1
    /\ cmds' = Append(cmds, Command(kind, graceful, kind = "Stop"))
    /\ UNCHANGED <<wk, avail, result, result2, wakeq, accVars, osq, nextId,
                   notify, exit, stops, sysStopped, threads, acks, builder, futures>>

CanWake == Len(wakeq) < MaxWake

\* ServerBuilder::handle_cmd, Pause, acknowledging without waking the acceptor
HandlePauseAcksOnly ==
    /\ cmds # <<>> /\ Head(cmds).kind = "Pause"
    /\ acks' = acks + 1
    /\ cmds' = Tail(cmds)
    /\ UNCHANGED <<wk, avail, result, result2, wakeq, accVars, osq, nextId,
                   issued, notify, exit, stops, sysStopped, threads, builder, futures>>


\* ServerBuilder::handle_cmd, ServerCommand::Pause
HandlePause ==
    /\ cmds # <<>> /\ Head(cmds).kind = "Pause"
    /\ CanWake
    /\ wakeq' = Wake(wakeq, PauseInterest)
    /\ acks' = acks + 1
    /\ cmds' = Tail(cmds)
    /\ UNCHANGED <<wk, avail, result, result2, accVars, osq, nextId,
                   issued, notify, exit, stops, sysStopped, threads, builder, futures>>

\* ServerBuilder::handle_cmd, Resume, forwarding nothing
HandleResumeDropped ==
    /\ cmds # <<>> /\ Head(cmds).kind = "Resume"
    /\ cmds' = Tail(cmds)
    /\ UNCHANGED <<wk, avail, result, result2, wakeq, accVars, osq, nextId,
                   issued, notify, exit, stops, sysStopped, threads, acks, builder, futures>>

\* ServerBuilder::handle_cmd, ServerCommand::Resume
HandleResume ==
    /\ cmds # <<>> /\ Head(cmds).kind = "Resume"
    /\ CanWake
    /\ wakeq' = Wake(wakeq, ResumeInterest)
    /\ acks' = acks + 1
    /\ cmds' = Tail(cmds)
    /\ UNCHANGED <<wk, avail, result, result2, accVars, osq, nextId,
                   issued, notify, exit, stops, sysStopped, threads, builder, futures>>

\* ServerBuilder::handle_cmd, ServerCommand::Notify
HandleNotify ==
    /\ cmds # <<>> /\ Head(cmds).kind = "Notify"
    /\ notify' = notify + 1
    /\ cmds' = Tail(cmds)
    /\ UNCHANGED <<wk, avail, result, result2, wakeq, accVars, osq, nextId,
                   issued, exit, stops, sysStopped, threads, acks, builder, futures>>

\* The task the Stop handler spawns, before its first poll.  ao is the
\* oneshot of AcceptorStop: "open" or "sent" (the list came); its sender
\* lives in the interest, so in the queue until the acceptor takes it.
StopTask(cmd) ==
    [graceful |-> cmd.graceful, completion |-> cmd.completion, notify |-> notify,
     exit |-> exit, ao |-> "open",
     rxs |-> <<>>, list |-> <<>>, phase |-> "acceptor"]

\* ServerBuilder::handle_cmd, ServerCommand::Stop
HandleStop ==
    /\ cmds # <<>> /\ Head(cmds).kind = "Stop"
    /\ CanWake
    /\ wakeq' = Wake(wakeq, StopInterest(Head(cmds).graceful, Len(stops) + 1))
    /\ stops' = Append(stops, StopTask(Head(cmds)))
    /\ notify' = 0
    /\ cmds' = Tail(cmds)
    /\ UNCHANGED <<wk, avail, result, result2, accVars, osq, nextId,
                   issued, exit, sysStopped, threads, acks, builder, futures>>

\* ServerBuilder::handle_cmd, WorkerFaulted, handing the acceptor the handle of
\* the worker that died
HandleWorkerFaultedStale ==
    /\ cmds # <<>> /\ Head(cmds).kind = "WorkerFaulted"
    /\ CanWake
    /\ LET i == Head(cmds).idx
           g == wk[i].gen + 1
       IN /\ g \in Gens
          /\ wk' = [wk EXCEPT ![i] = NewWorker(g, wk[i].factories)]
          /\ avail' = [avail EXCEPT ![i][g] = FALSE]
          /\ wakeq' = Wake(wakeq, WorkerInterest(Handle(i, wk[i].gen)))
    /\ cmds' = Tail(cmds)
    /\ UNCHANGED <<result, result2, accVars, osq, nextId,
                   issued, notify, exit, stops, sysStopped, threads, acks, builder, futures>>


\* ServerBuilder::handle_signal with SIGTERM taken for a hard stop
HandleSignalAllHard ==
    /\ cmds # <<>> /\ Head(cmds).kind = "Signal"
    /\ IF Head(cmds).sig \in {"Int", "Term", "Quit"}
       THEN /\ CanWake
            /\ exit' = TRUE
            /\ wakeq' = Wake(wakeq, StopInterest(FALSE, Len(stops) + 1))
            /\ stops' = Append(stops,
                    [StopTask(Command("Stop", FALSE, FALSE)) EXCEPT !.exit = TRUE])
            /\ notify' = 0
       ELSE UNCHANGED <<exit, wakeq, stops, notify>>
    /\ cmds' = Tail(cmds)
    /\ UNCHANGED <<wk, avail, result, result2, accVars, osq, nextId,
                   issued, sysStopped, threads, acks, builder, futures>>

\* ServerBuilder::handle_signal that leaves ServerBuilder::exit as it is
HandleSignalKeepsExit ==
    /\ cmds # <<>> /\ Head(cmds).kind = "Signal"
    /\ IF Head(cmds).sig \in {"Int", "Term", "Quit"}
       THEN /\ CanWake
            /\ wakeq' = Wake(wakeq, StopInterest(Head(cmds).sig = "Term", Len(stops) + 1))
            /\ stops' = Append(stops,
                    StopTask(Command("Stop", Head(cmds).sig = "Term", FALSE)))
            /\ notify' = 0
       ELSE UNCHANGED <<wakeq, stops, notify>>
    /\ cmds' = Tail(cmds)
    /\ UNCHANGED <<wk, avail, result, result2, accVars, osq, nextId,
                   issued, exit, sysStopped, threads, acks, builder, futures>>


\* ServerBuilder::handle_cmd, ServerCommand::Signal, with handle_signal: exit
\* is set, then the Stop is handled as a command without completion; the task
\* it spawns snapshots the exit just set.  Any other signal does nothing.
HandleSignal ==
    /\ cmds # <<>> /\ Head(cmds).kind = "Signal"
    /\ IF Head(cmds).sig \in {"Int", "Term", "Quit"}
       THEN /\ CanWake
            /\ exit' = TRUE
            /\ wakeq' = Wake(wakeq, StopInterest(Head(cmds).sig = "Term", Len(stops) + 1))
            /\ stops' = Append(stops,
                    [StopTask(Command("Stop", Head(cmds).sig = "Term", FALSE))
                        EXCEPT !.exit = TRUE])
            /\ notify' = 0
       ELSE UNCHANGED <<exit, wakeq, stops, notify>>
    /\ cmds' = Tail(cmds)
    /\ UNCHANGED <<wk, avail, result, result2, accVars, osq, nextId,
                   issued, sysStopped, threads, acks, builder, futures>>

\* ServerBuilder::handle_cmd, ServerCommand::WorkerFaulted, with
\* ServerBuilder::start_worker: a new worker at the same index, with a fresh
\* flag, whose handle goes to the acceptor.
HandleWorkerFaulted ==
    /\ cmds # <<>> /\ Head(cmds).kind = "WorkerFaulted"
    /\ CanWake
    /\ LET i == Head(cmds).idx
           g == wk[i].gen + 1
       IN /\ g \in Gens
          /\ wk' = [wk EXCEPT ![i] = NewWorker(g, wk[i].factories)]
          /\ avail' = [avail EXCEPT ![i][g] = FALSE]
          /\ wakeq' = Wake(wakeq, WorkerInterest(Handle(i, g)))
    /\ cmds' = Tail(cmds)
    /\ UNCHANGED <<result, result2, accVars, osq, nextId,
                   issued, notify, exit, stops, sysStopped, threads, acks, builder, futures>>

Resolved(i) == result[i] \in {"true", "false", "dropped"}

\* The Stop task, rx.await.unwrap_or_else(|_| Vec::new()): the acceptor's
\* list has come (a dropped sender would resolve it too, to the empty list).
StopTaskList(k) ==
    /\ k \in DOMAIN stops
    /\ stops[k].phase = "acceptor"
    /\ stops[k].ao # "open"
    /\ stops' = [stops EXCEPT ![k].phase = "workers"]
    /\ UNCHANGED <<wk, avail, result, result2, wakeq, accVars, osq, nextId,
                   cmds, issued, notify, exit, sysStopped, threads, acks, builder, futures>>

\* The Stop task's loop, not waiting for the receiver
StopTaskAwaitSkips(k) ==
    /\ k \in DOMAIN stops
    /\ stops[k].phase = "workers"
    /\ stops[k].rxs # <<>>
    /\ stops' = [stops EXCEPT ![k].rxs = Tail(@)]
    /\ UNCHANGED <<wk, avail, result, result2, wakeq, accVars, osq, nextId,
                   cmds, issued, notify, exit, sysStopped, threads, acks, builder, futures>>

\* The Stop task, one turn of "for rx in ... { let _ = rx.await; }": the next
\* receiver has resolved, with a reply or with its sender dropped.
StopTaskAwait(k) ==
    /\ k \in DOMAIN stops
    /\ stops[k].phase = "workers"
    /\ stops[k].rxs # <<>>
    /\ Resolved(Head(stops[k].rxs))
    /\ stops' = [stops EXCEPT ![k].rxs = Tail(@)]
    /\ UNCHANGED <<wk, avail, result, result2, wakeq, accVars, osq, nextId,
                   cmds, issued, notify, exit, sysStopped, threads, acks, builder, futures>>

\* The Stop task after the loop: the completion and the notify senders are
\* sent ().
StopTaskComplete(k) ==
    /\ k \in DOMAIN stops
    /\ stops[k].phase = "workers"
    /\ stops[k].rxs = <<>>
    /\ stops' = [stops EXCEPT ![k].phase = "completed"]
    /\ UNCHANGED <<wk, avail, result, result2, wakeq, accVars, osq, nextId,
                   cmds, issued, notify, exit, sysStopped, threads, acks, builder, futures>>

\* The Stop task's end reading ServerBuilder::exit as it is now
StopTaskExitReadsNow(k) ==
    /\ k \in DOMAIN stops
    /\ stops[k].phase = "completed"
    /\ exit
    /\ stops' = [stops EXCEPT ![k].phase = "exited"]
    /\ sysStopped' = TRUE
    /\ UNCHANGED <<wk, avail, result, result2, wakeq, accVars, osq, nextId,
                   cmds, issued, notify, exit, threads, acks, builder, futures>>

\* The Stop task's end, "if exit { sleep(300ms); System::current().stop() }":
\* exit is the value the handler read when it spawned the task.
StopTaskExit(k) ==
    /\ k \in DOMAIN stops
    /\ stops[k].phase = "completed"
    /\ stops[k].exit
    /\ stops' = [stops EXCEPT ![k].phase = "exited"]
    /\ sysStopped' = TRUE
    /\ UNCHANGED <<wk, avail, result, result2, wakeq, accVars, osq, nextId,
                   cmds, issued, notify, exit, threads, acks, builder, futures>>

\* ------------------------------------------------------------ builder
\* What create_tcp_listener answers for one socket address
BindResults == {"Ok", "AddrInUse", "PermissionDenied"}

\* What one call of bind finds: the socket addresses its argument resolves to,
\* each with what create_tcp_listener answers for it
BindInputs == UNION {[1..n -> BindResults] : n \in 0..MaxAddrs}

\* bind_addr's loop over the first n addresses: err, succ and sockets.  A
\* listener is named by the position of its address.
RECURSIVE BindAddrLoop(_, _)
BindAddrLoop(results, n) ==
    IF n = 0 THEN [err |-> "none", succ |-> FALSE, sockets |-> <<>>]
    ELSE LET acc == BindAddrLoop(results, n - 1)
         IN IF results[n] = "Ok"
            THEN [acc EXCEPT !.succ = TRUE, !.sockets = Append(@, n)]
            ELSE [acc EXCEPT !.err = results[n]]

\* bind_addr keeping the first error of the loop
BindAddrFirstError(results) ==
    LET acc == BindAddrLoop(results, Len(results))
        errs == SelectSeq(results, LAMBDA r : r # "Ok")
    IN IF acc.succ THEN [err |-> "none", sockets |-> acc.sockets]
       ELSE IF errs # <<>> THEN [err |-> Head(errs), sockets |-> <<>>]
       ELSE [err |-> "Can not bind to address.", sockets |-> <<>>]

\* bind_addr: Ok(sockets), or Err(err) with err "none" standing for Ok
BindAddr(results) ==
    LET acc == BindAddrLoop(results, Len(results))
    IN IF acc.succ THEN [err |-> "none", sockets |-> acc.sockets]
       ELSE IF acc.err # "none" THEN [err |-> acc.err, sockets |-> <<>>]
       ELSE [err |-> "Can not bind to address.", sockets |-> <<>>]

\* ServerBuilder::next_token that hands out the token without advancing
NextTokenNoAdvance(b) == [token |-> b.token + 1, b |-> b]

\* ServerBuilder::next_token: the token handed out and the builder after it.
\* The code's Token(n) is the model's token n + 1.
NextToken(b) == [token |-> b.token + 1, b |-> [b EXCEPT !.token = @ + 1]]

\* ServerBuilder::bind_acceptable for the listener lst
BindAcceptable(b, lst) ==
    LET nt == NextToken(b)
    IN [nt.b EXCEPT !.services = Append(@, <<nt.token>>),
                    !.sockets = Append(@, [token |-> nt.token, lst |-> lst])]

\* ServerBuilder::bind, the loop over the listeners bind_addr returned
RECURSIVE BindAll(_, _)
BindAll(b, sockets) ==
    IF sockets = <<>> THEN b
    ELSE BindAll(BindAcceptable(b, Head(sockets)), Tail(sockets))

\* The builder before run: no worker thread and no acceptor yet
Building ==
    /\ ~accRunning
    /\ \A i \in Idx : wk[i].pc = "absent"
    /\ builder.err = "none"

\* ServerBuilder::bind.  On Err the builder, moved into the call, is gone:
\* the model keeps what it held and the error, and nothing uses it again.
Bind(results) ==
    /\ Building
    /\ LET r == BindAddr(results)
       IN /\ builder.token + Len(r.sockets) <= NumTokens
          /\ builder' = IF r.err # "none"
                        THEN [builder EXCEPT !.err = r.err, !.tried = results]
                        ELSE [BindAll(builder, r.sockets) EXCEPT !.tried = results]
    /\ UNCHANGED <<wk, avail, result, result2, wakeq, accVars, osq, nextId,
                   cmds, issued, notify, exit, stops, sysStopped, threads, acks, futures>>

\* The layout of a list of factories: the factory that serves each token
LayoutOf(services) ==
    [t \in Tokens |->
        IF \E f \in DOMAIN services : \E p \in DOMAIN services[f] : services[f][p] = t
        THEN CHOOSE f \in DOMAIN services : \E p \in DOMAIN services[f] : services[f][p] = t
        ELSE 0]

\* ServerBuilder::run: the workers are started with clones of the factories,
\* the acceptor takes the sockets and registers them.  The model's workers
\* serve NumTokens listeners.
RunServer ==
    /\ Building
    /\ builder.sockets # <<>>
    /\ Len(builder.sockets) = NumTokens
    /\ wk' = [i \in Idx |->
                IF i <= threads THEN NewWorker(0, LayoutOf(builder.services))
                ELSE [NewWorker(0, LayoutOf(builder.services)) EXCEPT !.pc = "absent"]]
    /\ ring' = [i \in 1..threads |-> Handle(i, 0)]
    /\ registered' = [t \in Tokens |-> \E p \in DOMAIN builder.sockets :
                                          builder.sockets[p].token = t]
    /\ regBefore' = registered'
    /\ accRunning' = TRUE
    /\ builder' = [builder EXCEPT !.sockets = <<>>]
    /\ UNCHANGED <<avail, result, result2, wakeq, next, held, paused, osq, nextId,
                   cmds, issued, notify, exit, stops, sysStopped, threads, acks, futures>>

\* --------------------------- actix-service: apply_transform; actix-tls: connect
\* What a poll of a future answers: Poll::Pending, Poll::Ready(Ok(v)),
\* Poll::Ready(Err(v)); NotPolled before the first poll.
NotPolled == [kind |-> "None", v |-> 0]
Pending == [kind |-> "Pending", v |-> 0]
Ok(v) == [kind |-> "Ok", v |-> v]
Err(v) == [kind |-> "Err", v |-> v]

\* What the future of the inner factory S can answer a poll with, a service
\* or S::InitError, and the future of Transform::new_transform, a transform
\* or T::InitError, the same type.
FutureAnswers ==
    {Pending} \cup {Ok(s) : s \in 1..NumServices} \cup {Err(e) : e \in 1..NumErrors}

\* What the resolver's future can answer, Ok with the resolved Connect<T>,
\* and the connector's, Ok with the Connection of a stream and a request
\* (the order of Connection::into_parts).
ResolverAnswers ==
    {Pending} \cup {Ok(r) : r \in 1..NumAddrs} \cup {Err(e) : e \in 1..NumErrors}
ConnectorAnswers ==
    {Pending} \cup {Ok(<<s, r>>) : s \in 1..NumStreams, r \in 1..NumAddrs}
              \cup {Err(e) : e \in 1..NumErrors}

\* No future made yet.  Of the ApplyTransformFuture: calls is the history of
\* new_transform (the service of each call), polled the history of the polls
\* ("S" the inner factory's future, "T" the transform's future), sout and tout
\* what each future answered last, out what the poll returned last.  Of the
\* connect response: kind tells which service made it ("Connect" or "Tcp"),
\* calls is the history of TcpConnector::call (the request of each call),
\* polled the history of the polls ("R" the resolver's future, "C" the
\* connector's), rout and cout what each answered last, out what the
\* response's poll returned last.
NoFutures ==
    [transform |-> [state |-> "None", calls |-> <<>>, polled |-> <<>>,
                    sout |-> NotPolled, tout |-> NotPolled, out |-> NotPolled],
     connect |-> [kind |-> "None", state |-> "Resolve", calls |-> <<>>, polled |-> <<>>,
                  rout |-> NotPolled, cout |-> NotPolled, out |-> NotPolled,
                  panicked |-> FALSE]]

\* ApplyTransformFuture::poll, arm B
PollB(f, rt) == [f EXCEPT !.polled = Append(@, "T"), !.tout = rt, !.out = rt]

\* ApplyTransformFuture::poll that stays in state A after new_transform
ApplyTransformFuturePollStaysA(f, rs, rt) ==
    IF f.state = "A"
    THEN LET f1 == [f EXCEPT !.polled = Append(@, "S"), !.sout = rs]
         IN IF rs.kind = "Pending" THEN [f1 EXCEPT !.out = Pending]
            ELSE IF rs.kind = "Err" THEN [f1 EXCEPT !.out = rs]
            ELSE PollB([f1 EXCEPT !.calls = Append(@, rs.v)], rt)
    ELSE PollB(f, rt)

\* ApplyTransformFuture::poll: rs is what the inner factory's future answers
\* if polled, rt what the transform's future answers if polled.  In A,
\* ready! returns Pending and ? returns the error; on a service
\* new_transform is called, the state set to B, and self.poll(cx) runs arm B.
ApplyTransformFuturePoll(f, rs, rt) ==
    IF f.state = "A"
    THEN LET f1 == [f EXCEPT !.polled = Append(@, "S"), !.sout = rs]
         IN IF rs.kind = "Pending" THEN [f1 EXCEPT !.out = Pending]
            ELSE IF rs.kind = "Err" THEN [f1 EXCEPT !.out = rs]
            ELSE PollB([f1 EXCEPT !.calls = Append(@, rs.v), !.state = "B"], rt)
    ELSE PollB(f, rt)

\* ApplyTransformFactory::new_service: the future starts in state A with the
\* future of the inner factory's new_service
NewService ==
    /\ futures.transform.state = "None"
    /\ futures' = [futures EXCEPT !.transform.state = "A"]
    /\ UNCHANGED <<wk, avail, result, result2, wakeq, accVars, osq, nextId, cmds, issued,
                   notify, exit, stops, sysStopped, threads, acks, builder>>

\* The executor polls the ApplyTransformFuture, which has not resolved yet
TransformPoll(rs, rt) ==
    /\ futures.transform.state \in {"A", "B"}
    /\ futures.transform.out.kind \in {"None", "Pending"}
    /\ Len(futures.transform.polled) < MaxPolls
    /\ futures' = [futures EXCEPT
                     !.transform = ApplyTransformFuturePoll(futures.transform, rs, rt)]
    /\ UNCHANGED <<wk, avail, result, result2, wakeq, accVars, osq, nextId, cmds, issued,
                   notify, exit, stops, sysStopped, threads, acks, builder>>

\* ConnectState::poll: Either::Right with the resolved request, Either::Left
\* with anything else; c is the state as the poll leaves it
ConnectStatePoll(c, rr, rc) ==
    IF c.state = "Resolve"
    THEN [c |-> [c EXCEPT !.polled = Append(@, "R"), !.rout = rr],
          side |-> IF rr.kind = "Ok" THEN "Right" ELSE "Left", v |-> rr]
    ELSE [c |-> [c EXCEPT !.polled = Append(@, "C"), !.cout = rc],
          side |-> "Left", v |-> rc]

\* TcpConnectState::poll: of a connection made only the stream is returned
TcpConnectStatePoll(c, rr, rc) ==
    IF c.state = "Resolve"
    THEN [c |-> [c EXCEPT !.polled = Append(@, "R"), !.rout = rr],
          side |-> IF rr.kind = "Ok" THEN "Right" ELSE "Left", v |-> rr]
    ELSE [c |-> [c EXCEPT !.polled = Append(@, "C"), !.cout = rc],
          side |-> "Left", v |-> IF rc.kind = "Ok" THEN Ok(rc.v[1]) ELSE rc]

\* ConnectServiceResponse::poll calling the connector without the move to Connect
ConnectServiceResponsePollKeepsState(c, rr, rc) ==
    LET p == ConnectStatePoll(c, rr, rc)
    IN IF p.side = "Left" THEN [p.c EXCEPT !.out = p.v]
       ELSE LET q == ConnectStatePoll([p.c EXCEPT !.calls = Append(@, p.v.v)], rr, rc)
            IN IF q.side = "Left" THEN [q.c EXCEPT !.out = q.v]
               ELSE [q.c EXCEPT !.panicked = TRUE]

\* ConnectServiceResponse::poll: rr is what the resolver's future answers if
\* polled, rc what the connector's future answers if polled
ConnectServiceResponsePoll(c, rr, rc) ==
    LET p == ConnectStatePoll(c, rr, rc)
    IN IF p.side = "Left" THEN [p.c EXCEPT !.out = p.v]
       ELSE LET q == ConnectStatePoll([p.c EXCEPT !.state = "Connect",
                                                  !.calls = Append(@, p.v.v)], rr, rc)
            IN IF q.side = "Left" THEN [q.c EXCEPT !.out = q.v]
               ELSE [q.c EXCEPT !.panicked = TRUE]

\* TcpConnectServiceResponse::poll
TcpConnectServiceResponsePoll(c, rr, rc) ==
    LET p == TcpConnectStatePoll(c, rr, rc)
    IN IF p.side = "Left" THEN [p.c EXCEPT !.out = p.v]
       ELSE LET q == TcpConnectStatePoll([p.c EXCEPT !.state = "Connect",
                                                     !.calls = Append(@, p.v.v)], rr, rc)
            IN IF q.side = "Left" THEN [q.c EXCEPT !.out = q.v]
               ELSE [q.c EXCEPT !.panicked = TRUE]

\* ConnectService::call and TcpConnectService::call: the response starts in
\* Resolve with the future of Resolver::call
ServiceCall(kind) ==
    /\ futures.connect.kind = "None"
    /\ futures' = [futures EXCEPT !.connect.kind = kind]
    /\ UNCHANGED <<wk, avail, result, result2, wakeq, accVars, osq, nextId, cmds, issued,
                   notify, exit, stops, sysStopped, threads, acks, builder>>

\* The executor polls the response, which has not resolved yet
ResponsePoll(rr, rc) ==
    /\ futures.connect.kind # "None"
    /\ futures.connect.out.kind \in {"None", "Pending"}
    /\ ~futures.connect.panicked
    /\ Len(futures.connect.polled) < MaxPolls
    /\ futures' = [futures EXCEPT !.connect =
                     IF futures.connect.kind = "Tcp"
                     THEN TcpConnectServiceResponsePoll(futures.connect, rr, rc)
                     ELSE ConnectServiceResponsePoll(futures.connect, rr, rc)]
    /\ UNCHANGED <<wk, avail, result, result2, wakeq, accVars, osq, nextId, cmds, issued,
                   notify, exit, stops, sysStopped, threads, acks, builder>>

\* ServerBuilder::run with workers(n): the workers are started, the acceptor
\* gets the listeners and the handles, the controller waits for commands.
\* factories is the layout the bindings made, first what the services'
\* poll_ready answers first, systemExit whether system_exit was called.  run
\* has taken the sockets out of the builder.
Launch(n, factories, first, systemExit) ==
    /\ threads = n
    /\ wk = [i \in Idx |-> IF i <= n THEN [NewWorker(0, factories) EXCEPT !.ready = first]
                           ELSE [NewWorker(0, factories) EXCEPT !.pc = "absent"]]
    /\ avail = [i \in Idx |-> [g \in Gens |-> FALSE]]
    /\ result = [i \in Idx |-> "none"]
    /\ result2 = [i \in Idx |-> "none"]
    /\ wakeq = <<>>
    /\ ring = [i \in 1..n |-> Handle(i, 0)]
    /\ next = 1
    /\ registered = [t \in Tokens |-> TRUE]
    /\ held = [t \in Tokens |-> None]
    /\ paused = FALSE
    /\ regBefore = [t \in Tokens |-> TRUE]
    /\ accRunning = TRUE
    /\ osq = [t \in Tokens |-> 0]
    /\ nextId = 1
    /\ cmds = <<>>
    /\ issued = 0
    /\ notify = 0
    /\ exit = systemExit
    /\ stops = <<>>
    /\ sysStopped = FALSE
    /\ acks = 0
    /\ futures = NoFutures
    /\ builder = [token |-> NumTokens, sockets |-> <<>>,
                  services |-> ServicesOf(factories), err |-> "none", tried |-> <<>>]

\* The server built without system_exit
Start(n, factories, first) == Launch(n, factories, first, FALSE)

\* The server of bind calls only, with services that start ready
Run(n) == Start(n, PerToken, AllReady)

Init == Run(NumWorkers)

\* The workers and the acceptor: connections are accepted, dispatched, served.
Serve ==
    \/ \E i \in Idx : WorkerStarted(i, TRUE)
    \/ \E i \in Idx : WorkerPoll(i)
    \/ \E i \in Idx, c \in 1..MaxConns : CallCompletes(i, c)
    \/ \E t \in Tokens : AcceptorAccept(t)
    \/ AcceptorInterest

Next ==
    \/ Serve
    \/ \E t \in Tokens : ClientConnects(t, MaxConns)

\* Two workers serving the clients of two listeners
Spec == Init /\ [][Next]_vars

\* The services' readiness and the factories' futures
Services ==
    \/ \E i \in Idx, t \in Tokens, r \in {"Ok", "Pending", "Err"} : ServiceReadiness(i, t, r)
    \/ \E i \in Idx, r \in {"Ok", "Err"} : FactoryResolves(i, r)

WorkerNext ==
    \/ Serve
    \/ \E t \in Tokens : ClientConnects(t, MaxConns)
    \/ Services

\* One worker whose services become ready, pending and failed
WorkerSpec == Run(1) /\ [][WorkerNext]_vars

PauseNext ==
    \/ Serve
    \/ \E t \in Tokens : ClientConnects(t, MaxConns)
    \/ Issue("Pause", FALSE, MaxCmds)
    \/ Issue("Resume", FALSE, MaxCmds)
    \/ HandlePause
    \/ HandleResume

\* One worker, and a server handle that pauses and resumes
PauseSpec == Run(1) /\ [][PauseNext]_vars

Stopping(maxConns) ==
    \/ \E t \in Tokens : ClientConnects(t, maxConns)
    \/ \E g \in BOOLEAN : Issue("Stop", g, StopMaxCmds)
    \/ HandleStop
    \/ \E k \in 1..StopMaxCmds : StopTaskList(k)
    \/ \E k \in 1..StopMaxCmds : StopTaskAwait(k)
    \/ \E k \in 1..StopMaxCmds : StopTaskComplete(k)
    \/ \E i \in Idx : DeadlineFires(i)
    \/ \E i \in Idx : ArbiterExit(i)

StopNext ==
    \/ Serve
    \/ Stopping(StopMaxConns)
    \/ \E i \in Idx : WorkerPollPanics(i)
    \/ HandleWorkerFaulted

\* Two workers, one of which may die, and a server handle that stops
StopSpec == Init /\ [][StopNext]_vars

ShutdownNext ==
    \/ Serve
    \/ Services
    \/ \E t \in Tokens : ClientConnects(t, LiveMaxConns)
    \/ \E g \in BOOLEAN : Issue("Stop", g, ShutdownMaxCmds)
    \/ HandleStop
    \/ \E i \in Idx : DeadlineFires(i)
    \/ \E i \in Idx : ArbiterExit(i)

\* One worker whose services become ready, pending and failed, and a server
\* handle that stops it
ShutdownSpec == Run(1) /\ [][ShutdownNext]_vars


\* test_service_restart: one worker, two listeners bound through configure or
\* through bind, services whose first poll_ready answers Err or Ok and every
\* later one Ok.  A slot that answered Err is not polled again before it is
\* re-created, and the new instance answers Ok.
RestartInit ==
    \E factories \in {PerToken, Configured}, first \in [Tokens -> {"Ok", "Err"}] :
        Start(1, factories, first)

RestartNext ==
    \/ Serve
    \/ \E t \in Tokens : ClientConnects(t, RestartMaxConns)
    \/ \E i \in Idx : FactoryResolves(i, "Ok")

\* A woken worker is polled, a factory's future resolves, the acceptor accepts
\* from a registered listener with a connection waiting and drains its queue.
RestartFairness ==
    /\ WF_vars(WorkerStarted(1, TRUE))
    /\ WF_vars(WorkerPoll(1))
    /\ WF_vars(FactoryResolves(1, "Ok"))
    /\ WF_vars(AcceptorInterest)
    /\ \A t \in Tokens : WF_vars(AcceptorAccept(t))

RestartSpec == RestartInit /\ [][RestartNext]_vars /\ RestartFairness


\* test_max_concurrent_connections: one worker, clients that connect and stay,
\* calls that do not complete.
CapNext ==
    \/ \E i \in Idx : WorkerStarted(i, TRUE)
    \/ \E i \in Idx : WorkerPoll(i)
    \/ \E t \in Tokens : AcceptorAccept(t)
    \/ AcceptorInterest
    \/ \E t \in Tokens : ClientConnects(t, CapClients)

\* The test's clients all connect; a woken worker is polled; the acceptor
\* accepts from a registered listener and drains its queue.
CapFairness ==
    /\ WF_vars(WorkerStarted(1, TRUE))
    /\ WF_vars(WorkerPoll(1))
    /\ WF_vars(AcceptorInterest)
    /\ WF_vars(\E t \in Tokens : ClientConnects(t, CapClients))
    /\ \A t \in Tokens : WF_vars(AcceptorAccept(t))

CapSpec == Run(1) /\ [][CapNext]_vars /\ CapFairness


\* worker_restart: two workers, a call that panics, the controller replacing
\* the worker the acceptor found dead.
\* The test binds one address: its clients connect to the first listener, and
\* the service that panics is the second worker's.
FaultNext ==
    \/ Serve
    \/ ClientConnects(1, FaultMaxConns)
    \/ WorkerPollPanics(NumWorkers)
    \/ HandleWorkerFaulted

\* A woken worker is polled, the acceptor accepts from a registered listener
\* and drains its queue, the controller handles the commands it received.
\* Nothing makes a client connect.
FaultFairness ==
    /\ \A i \in Idx :
          /\ WF_vars(WorkerStarted(i, TRUE))
          /\ WF_vars(WorkerPoll(i))
    /\ WF_vars(AcceptorInterest)
    /\ WF_vars(HandleWorkerFaulted)
    /\ WF_vars(AcceptorAccept(1))

FaultSpec == Init /\ [][FaultNext]_vars /\ FaultFairness


ControlInit == \E systemExit \in BOOLEAN : Launch(1, PerToken, AllReady, systemExit)

ControlNext ==
    \/ \E i \in Idx : WorkerStarted(i, TRUE)
    \/ \E i \in Idx : WorkerPoll(i)
    \/ AcceptorInterest
    \/ \E kind \in {"Pause", "Resume", "Notify"} : Issue(kind, FALSE, CtlMaxCmds)
    \/ \E g \in BOOLEAN : Issue("Stop", g, CtlMaxCmds)
    \/ \E sig \in Signals : IssueSignal(sig, CtlMaxCmds)
    \/ HandlePause
    \/ HandleResume
    \/ HandleNotify
    \/ HandleStop
    \/ HandleSignal
    \/ \E k \in 1..CtlMaxCmds : StopTaskList(k)
    \/ \E k \in 1..CtlMaxCmds : StopTaskAwait(k)
    \/ \E k \in 1..CtlMaxCmds : StopTaskComplete(k)
    \/ \E k \in 1..CtlMaxCmds : StopTaskExit(k)

\* One worker without clients; handles and signals drive the controller, built
\* with or without system_exit
ControlSpec == ControlInit /\ [][ControlNext]_vars

ExitNext ==
    \/ \E i \in Idx : WorkerStarted(i, TRUE)
    \/ \E i \in Idx : WorkerPoll(i)
    \/ AcceptorInterest
    \/ \E g \in BOOLEAN : Issue("Stop", g, ExitMaxCmds)
    \/ \E sig \in Signals : IssueSignal(sig, ExitMaxCmds)
    \/ HandleStop
    \/ HandleSignal
    \/ \E k \in 1..ExitMaxCmds : StopTaskList(k)
    \/ \E k \in 1..ExitMaxCmds : StopTaskAwait(k)
    \/ \E k \in 1..ExitMaxCmds : StopTaskComplete(k)
    \/ \E k \in 1..ExitMaxCmds : StopTaskExit(k)

\* The Stop task's timer fires and the task is polled again
ExitFairness == \A k \in 1..ExitMaxCmds : WF_vars(StopTaskExit(k))

\* One worker without clients, stopped by handles and by signals, with or
\* without system_exit
ExitSpec == ControlInit /\ [][ExitNext]_vars /\ ExitFairness

\* ServerBuilder::new with workers(NumWorkers): nothing bound, nothing started
BuildInit ==
    /\ threads = NumWorkers
    /\ wk = [i \in Idx |-> [NewWorker(0, PerToken) EXCEPT !.pc = "absent"]]
    /\ avail = [i \in Idx |-> [g \in Gens |-> FALSE]]
    /\ result = [i \in Idx |-> "none"]
    /\ result2 = [i \in Idx |-> "none"]
    /\ wakeq = <<>>
    /\ ring = <<>>
    /\ next = 1
    /\ registered = [t \in Tokens |-> FALSE]
    /\ held = [t \in Tokens |-> None]
    /\ paused = FALSE
    /\ regBefore = [t \in Tokens |-> FALSE]
    /\ accRunning = FALSE
    /\ osq = [t \in Tokens |-> 0]
    /\ nextId = 1
    /\ cmds = <<>>
    /\ issued = 0
    /\ notify = 0
    /\ exit = FALSE
    /\ stops = <<>>
    /\ sysStopped = FALSE
    /\ acks = 0
    /\ futures = NoFutures
    /\ builder = [token |-> 0, sockets |-> <<>>, services |-> <<>>, err |-> "none",
                  tried |-> <<>>]

BuildNext ==
    \/ \E results \in BindInputs : Bind(results)
    \/ RunServer
    \/ Serve
    \/ \E t \in Tokens : ClientConnects(t, MaxConns)

\* A server from ServerBuilder::new through bind and run to serving
BuildSpec == BuildInit /\ [][BuildNext]_vars

FailNext ==
    \/ Serve
    \/ \E i \in Idx : WorkerStarted(i, FALSE)
    \/ ClientConnects(1, FailMaxConns)
    \/ \E i \in Idx, r \in {"Ok", "Err"} : FactoryResolves(i, r)
    \/ \E i \in Idx : ArbiterExit(i)
    \/ HandleWorkerFaulted

\* A woken worker is polled, a stopped arbiter drops its tasks, the controller
\* handles the commands it is sent, the acceptor accepts from a registered
\* listener with a connection waiting and drains its queue.  Nothing makes a
\* client connect or a factory's future resolve.
FailFairness ==
    /\ WF_vars(WorkerStarted(1, TRUE))
    /\ WF_vars(WorkerPoll(1))
    /\ WF_vars(ArbiterExit(1))
    /\ WF_vars(AcceptorInterest)
    /\ WF_vars(AcceptorAccept(1))
    /\ WF_vars(HandleWorkerFaulted)

\* One worker whose factories fail, at startup or when a service is restarted
FailSpec == RestartInit /\ [][FailNext]_vars /\ FailFairness

\* poll_ready of a restarted service returns Err again.  The instance that
\* failed is dropped by the restart, so the model gives its number to the one
\* that replaces it: the instance numbers stay within 0..MaxInst however
\* often the service fails.
ServiceFailsAgain(i, t) ==
    /\ Alive(wk[i])
    /\ t \in DOMAIN wk[i].services
    /\ wk[i].ready[t] = "Ok"
    /\ wk[i].services[t].inst = MaxInst
    /\ wk[i].services[t].status = "Unavailable"
    /\ wk' = [wk EXCEPT ![i].ready[t] = "Err", ![i].services[t].inst = MaxInst - 1]
    /\ UNCHANGED <<avail, result, result2, wakeq, accVars, osq, nextId, ctlVars>>

\* The server of one worker whose first service may fail its first poll_ready
LoopInit ==
    \E r \in {"Ok", "Err"} : Start(1, PerToken, [AllReady EXCEPT ![1] = r])

LoopNext ==
    \/ Serve
    \/ ClientConnects(1, LoopMaxConns)
    \/ \E i \in Idx : ServiceReadiness(i, 1, "Err")
    \/ \E i \in Idx : ServiceFailsAgain(i, 1)
    \/ \E i \in Idx : FactoryResolves(i, "Ok")

\* A woken worker is polled and goes on with a poll it has begun, the acceptor
\* accepts and drains its queue.  Nothing makes a service fail or a factory's
\* future resolve.
LoopFairness ==
    /\ WF_vars(WorkerStarted(1, TRUE))
    /\ WF_vars(WorkerPoll(1))
    /\ WF_vars(AcceptorInterest)
    /\ WF_vars(AcceptorAccept(1))

\* One worker with a service whose readiness fails, also after every restart
LoopSpec == LoopInit /\ [][LoopNext]_vars /\ LoopFairness

\* One worker without clients, stopped by handles and by signals, in a server
\* built without system_exit
SignalSpec == Run(1) /\ [][ExitNext]_vars /\ ExitFairness


\* WorkerHandle::stop called on a clone of the worker's handle, at most twice:
\* the StopCommand joins the stop channel with the sender of a new oneshot,
\* or the send fails and the command is dropped with its sender.
WorkerStop(i, graceful) ==
    /\ wk[i].pc # "absent"
    /\ result[i] = "none" \/ result2[i] = "none"
    /\ LET n == IF result[i] = "none" THEN 1 ELSE 2
           open == ChannelOpen(Handle(i, wk[i].gen))
           val == IF open THEN "open" ELSE "dropped"
       IN /\ wk' = IF open
                   THEN [wk EXCEPT ![i].rx2 = Append(@, [graceful |-> graceful, n |-> n])]
                   ELSE wk
          /\ result' = IF n = 1 THEN [result EXCEPT ![i] = val] ELSE result
          /\ result2' = IF n = 2 THEN [result2 EXCEPT ![i] = val] ELSE result2
    /\ UNCHANGED <<avail, wakeq, accVars, osq, nextId, ctlVars>>

\* A worker serving connections whose handle is told to stop, up to twice
TwiceNext ==
    \/ Serve
    \/ \E t \in Tokens : ClientConnects(t, TwiceMaxConns)
    \/ \E i \in Idx, g \in BOOLEAN : WorkerStop(i, g)
    \/ \E i \in Idx : DeadlineFires(i)
    \/ \E i \in Idx : ArbiterExit(i)

TwiceSpec == Run(1) /\ [][TwiceNext]_vars


LiveNext ==
    \/ Serve
    \/ Stopping(LiveMaxConns)

\* What the executors, the timers and the acceptor's poller guarantee: a
\* woken task is polled, a timer fires, a woken acceptor drains its queue.
\* Nothing makes a client connect, a handle issue a command or a call finish.
Fairness ==
    /\ \A i \in 1..LiveWorkers :
          /\ WF_vars(WorkerStarted(i, TRUE))
          /\ WF_vars(WorkerPoll(i))
          /\ WF_vars(DeadlineFires(i))
          /\ WF_vars(ArbiterExit(i))
    /\ WF_vars(AcceptorInterest)
    /\ WF_vars(HandleStop)
    /\ \A k \in 1..StopMaxCmds :
          WF_vars(StopTaskList(k) \/ StopTaskAwait(k) \/ StopTaskComplete(k))

\* One worker and a server handle that stops, under fair scheduling
LiveSpec == Run(LiveWorkers) /\ [][LiveNext]_vars /\ Fairness

\* ------------------------------------------------------------- claims
\* Worker i takes connection c: c joins the calls in flight.
Takes(i, c) == c \notin wk[i].inflight /\ c \in wk'[i].inflight

\* The call of connection c, in flight on worker i, finishes.
Finishes(i, c) ==
    /\ c \in wk[i].inflight
    /\ c \notin wk'[i].inflight
    /\ wk'[i].arb = wk[i].arb

ConnIds == 1..MaxConns

\* C1: in every reachable state no worker holds more than
\* max_concurrent_connections counter guards, and a worker takes a connection
\* from its channel only in a step that starts with the counter below capacity.
C1_CapRespected ==
    /\ [](\A i \in Idx : wk[i].conns <= MaxConcurrent)
    /\ [][\A i \in Idx, c \in ConnIds : Takes(i, c) => wk[i].conns < MaxConcurrent]_vars

\* C1, its case: a worker at capacity is parked with a connection waiting in
\* its channel.
C1_AtCapacityWithWaiting ==
    \E i \in Idx :
        /\ wk[i].conns = MaxConcurrent
        /\ wk[i].rx # <<>>
        /\ wk[i].pc = "parked"

\* C2: the counter always equals the number of calls in flight; the step that
\* takes a connection takes exactly the head of the channel and one guard, and
\* the step in which a call finishes releases exactly one guard.
C2_GuardPerCall ==
    /\ [](\A i \in Idx : wk[i].conns = Cardinality(wk[i].inflight))
    /\ [][\A i \in Idx, c \in ConnIds :
            /\ Takes(i, c) =>
                  /\ wk[i].rx # <<>>
                  /\ Head(wk[i].rx).id = c
                  /\ wk'[i].rx = Tail(wk[i].rx)
                  /\ wk'[i].inflight = wk[i].inflight \cup {c}
                  /\ wk'[i].conns = wk[i].conns + 1
            /\ Finishes(i, c) =>
                  /\ wk'[i].inflight = wk[i].inflight \ {c}
                  /\ wk'[i].conns = wk[i].conns - 1]_vars

\* C2, its case: every connection of the run was accepted and delivered, and
\* all but one of the calls have finished and released their guards.
C2_AllButOneFinished ==
    /\ nextId = MaxConns + 1
    /\ \A t \in Tokens : held[t] = None
    /\ \A i \in Idx : wk[i].rx = <<>>
    /\ \E i \in Idx :
          /\ wk[i].conns = 1
          /\ \A j \in Idx \ {i} : wk[j].conns = 0

\* Where connection c is: held by the acceptor, in a worker's channel, or in
\* a call.
Places(c) ==
    {<<"held", t, 0>> : t \in {u \in Tokens : held[u].id = c}}
    \cup {<<"rx", x[1], x[2]>> :
            x \in {y \in Idx \X ConnIds :
                     y[2] \in DOMAIN wk[y[1]].rx /\ wk[y[1]].rx[y[2]].id = c}}
    \cup {<<"call", i, 0>> : i \in {j \in Idx : c \in wk[j].inflight}}

\* The connections of one listener are in the order of their accepts.
InAcceptOrder(q) ==
    \A p, r \in DOMAIN q : p < r /\ q[p].token = q[r].token => q[p].id < q[r].id

\* C3: an accepted connection is in at most one place, so with at most one
\* worker; in a worker's channel the connections of one listener are in
\* accept order, a stream the acceptor still holds is newer than every
\* connection of its listener in any channel, and a worker takes connections
\* from the head of its channel.
C3_OneWorkerInOrder ==
    /\ [](\A c \in ConnIds : Cardinality(Places(c)) <= 1)
    /\ [](\A i \in Idx : InAcceptOrder(wk[i].rx))
    /\ [](\A t \in Tokens, i \in Idx :
            held[t] # None =>
                \A p \in DOMAIN wk[i].rx :
                    wk[i].rx[p].token = t => wk[i].rx[p].id < held[t].id)
    /\ [][\A i \in Idx, c \in ConnIds :
            Takes(i, c) => Head(wk[i].rx).id = c /\ wk'[i].rx = Tail(wk[i].rx)]_vars

\* C3, its case: two connections of one listener wait in the channel of one
\* worker while the other worker has a call in flight.
C3_TwoOfOneListener ==
    \E i, j \in Idx :
        /\ i # j
        /\ Len(wk[i].rx) >= 2
        /\ wk[i].rx[1].token = wk[i].rx[2].token
        /\ wk[j].inflight # {}

\* The step appends one WorkerAvailable of handle (i, g) to the wake queue.
Pushes(i, g) == wakeq' = Append(wakeq, WorkerAvailable(Handle(i, g)))

\* C4: a step pushes WorkerAvailable exactly when it changes the worker's
\* flag from false to true, and then pushes one; a step that leaves the flag
\* as it was, or changes it from true to false, pushes none.
C4_WakeOnRisingEdge ==
    [][\A i \in Idx, g \in Gens :
         (~avail[i][g] /\ avail'[i][g]) <=> Pushes(i, g)]_vars

\* C4, its case: the flag rose, fell and rose again before the acceptor took
\* anything: two interests wait, one per rise, none for the fall.
C4_TwoRises ==
    /\ Len(wakeq) = 2
    /\ wakeq[1] = WorkerAvailable(Handle(1, 0))
    /\ wakeq[2] = WorkerAvailable(Handle(1, 0))
    /\ avail[1][0]

\* C5 as stated: when the acceptor is about to process a WorkerAvailable, the
\* flag of the worker that pushed it reads true.
C5_FlagTrueWhenProcessed ==
    (accRunning /\ wakeq # <<>> /\ Head(wakeq).kind = "WorkerAvailable")
        => HandleAvailable(Head(wakeq).h)

\* C5 amended: WorkerAvailable is pushed only by a step that leaves the flag
\* true; when the flag reads false while the interest waits, the worker has
\* left Available and reset the flag itself.
C5_FlagTrueWhenPushed ==
    /\ [][\A i \in Idx, g \in Gens : Pushes(i, g) => avail'[i][g]]_vars
    /\ [](\A p \in DOMAIN wakeq :
            (wakeq[p].kind = "WorkerAvailable" /\ ~HandleAvailable(wakeq[p].h))
                => wk[wakeq[p].h.idx].state # "Available")

\* C5, its case: the interest is next in the queue and the flag is false again
\* since the worker reached its connection cap.
C5_ResetBeforeProcessed ==
    /\ accRunning
    /\ wakeq # <<>>
    /\ Head(wakeq).kind = "WorkerAvailable"
    /\ ~HandleAvailable(Head(wakeq).h)
    /\ wk[Head(wakeq).h.idx].conns = MaxConcurrent

\* C6: from a state in which the acceptor is paused no step puts a connection
\* into a worker's channel, whatever the workers' flags; a call in flight on a
\* parked worker can still finish.
C6_NothingPassedWhilePaused ==
    /\ [][paused => \A i \in Idx : Len(wk'[i].rx) <= Len(wk[i].rx)]_vars
    /\ [](\A i \in Idx, c \in ConnIds :
            (paused /\ wk[i].pc = "parked" /\ c \in wk[i].inflight)
                => ENABLED CallCompletes(i, c))

\* C6, its case: the acceptor is paused and holds a stream; the worker is
\* available again, its WorkerAvailable has been taken off the queue, and the
\* stream is still held; another call is in flight.
C6_HeldWhilePaused ==
    /\ paused
    /\ wakeq = <<>>
    /\ \E t \in Tokens : held[t] # None
    /\ \E i \in Idx :
          /\ HandleAvailable(Handle(i, wk[i].gen))
          /\ wk[i].pc = "parked"
          /\ wk[i].inflight # {}

\* The acceptor goes from paused to not paused: it applies a Resume.
Resumes == paused /\ ~paused'

\* The controller takes a command of this kind off its channel.
Handles(kind) == cmds # <<>> /\ Head(cmds).kind = kind /\ cmds' = Tail(cmds)

C8_EveryWorkerReplied ==
    \A k \in DOMAIN stops :
        stops[k].phase = "completed" =>
            /\ stops[k].ao = "sent"
            /\ \A p \in DOMAIN stops[k].list : Resolved(stops[k].list[p])
            /\ stops[k].graceful =>
                  \A i \in Idx : wk[i].pc # "absent" => result[i] \in {"true", "false"}

\* C8 amended: a completed Stop has its list from the acceptor and every
\* receiver of the list has resolved; if it is graceful, every worker of the
\* list (the ring when the acceptor applied the Stop) has replied true with no
\* connection in flight, replied false after its timeout, or is dead and has
\* dropped the reply sender.
C8_EveryListedWorkerResolved ==
    \A k \in DOMAIN stops :
        stops[k].phase = "completed" =>
            /\ stops[k].ao = "sent"
            /\ \A p \in DOMAIN stops[k].list :
                  LET i == stops[k].list[p]
                  IN /\ Resolved(i)
                     /\ stops[k].graceful =>
                           \/ result[i] = "true" /\ wk[i].conns = 0
                           \/ result[i] = "false" /\ wk[i].t2
                           \/ result[i] = "dropped" /\ ~Alive(wk[i])

\* C8, its case: a graceful Stop has completed; one worker of its list
\* replied false at the timeout, another was dead and dropped the sender.
C8_TimeoutAndDead ==
    \E k \in DOMAIN stops :
        /\ stops[k].phase = "completed"
        /\ stops[k].graceful
        /\ \E p, q \in DOMAIN stops[k].list :
              /\ result[stops[k].list[p]] = "false"
              /\ result[stops[k].list[q]] = "dropped"

FirstStopCompleted == stops # <<>> /\ stops[1].phase = "completed"

\* C9 as stated: once the first Stop has completed, the handling of a second
\* Stop changes no listener, worker or acceptor state, and a second Stop
\* issued then is eventually completed.
C9_SecondStopAcked ==
    /\ [][(FirstStopCompleted /\ (cmds' # cmds \/ stops' # stops))
            => UNCHANGED <<wk, avail, result, result2, ring, next, registered, held,
                           paused, accRunning, osq, nextId>>]_vars
    /\ []((FirstStopCompleted /\ issued = 1)
            => [](issued = 2 => <>(Len(stops) = 2 /\ stops[2].phase = "completed")))

\* C10: a worker in Shutdown is eventually done and has replied; polled with
\* the timer fired and connections in flight it replies false and ends; and a
\* graceful Stop the acceptor has applied is eventually completed.  No step
\* of a call finishing is assumed.
C10_GracefulStopAnswered ==
    /\ \A i \in Idx :
          (Alive(wk[i]) /\ wk[i].state = "Shutdown")
              ~> (~Alive(wk[i]) /\ result[i] \in {"true", "false"})
    /\ [][\A i \in Idx :
            (/\ Alive(wk[i]) /\ wk[i].state = "Shutdown"
             /\ wk[i].t2 /\ wk[i].conns > 0
             /\ wk'[i].pc # wk[i].pc)
                => result'[i] = "false" /\ wk'[i].pc = "done"]_vars
    /\ \A k \in 1..StopMaxCmds :
          [](( /\ k \in DOMAIN stops
               /\ stops[k].graceful
               /\ stops[k].ao = "sent")
                => <>(k \in DOMAIN stops /\ stops[k].phase = "completed"))

\* C10, its case: the graceful Stop has completed, the worker replied false
\* at the timeout, and its call is still in flight.
C10_RepliedFalseAtTimeout ==
    \E i \in Idx, k \in DOMAIN stops :
        /\ stops[k].graceful
        /\ stops[k].phase = "completed"
        /\ result[i] = "false"
        /\ wk[i].t2
        /\ wk[i].inflight # {}

\* C11, as stated: a worker in graceful shutdown replies true if and only if
\* its counter reached 0 before the shutdown timeout elapsed, and false if and
\* only if the deadline fired while the counter was still above 0.
C11_TrueOnlyBeforeDeadline ==
    \A i \in Idx :
        wk[i].state = "Shutdown" =>
            /\ result[i] = "true" => ~wk[i].t2
            /\ wk[i].t2 /\ result[i] \in {"true", "false"} => result[i] = "false"

\* C11, amended: the reply of a worker in graceful shutdown is decided by the
\* counter at the poll that sends it: true if and only if the counter is 0 at
\* that poll, whether or not the deadline has fired by then, and false if and
\* only if the deadline has fired and the counter is still above 0 at that poll.
C11_ReplyByCounterAtPoll ==
    [][\A i \in Idx :
          wk[i].state = "Shutdown" /\ result[i] = "open" /\ result'[i] # "open" =>
              /\ result'[i] \in {"true", "false"}
              /\ result'[i] = "true" <=> wk[i].conns = 0
              /\ result'[i] = "false" <=> wk[i].conns > 0 /\ wk[i].t2]_vars

\* The deadline fired, the last call finished before the poll: the reply is true.
C11_TrueAfterDeadline ==
    \E i \in Idx : wk[i].state = "Shutdown" /\ result[i] = "true" /\ wk[i].t2


\* Worker i takes a StopCommand off its stop channel at the head of a poll.
ProcessesStop(i) ==
    /\ wk[i].rx2 # <<>>
    /\ wk[i].pc \in {"parked", "entry"}
    /\ Len(wk'[i].rx2) < Len(wk[i].rx2)
    /\ wk'[i].gen = wk[i].gen
    /\ wk'[i].arb = wk[i].arb

\* C12: a worker that processes a Stop while its connection counter is 0 sets
\* its availability flag to false, replies true and terminates in that step,
\* whether the Stop is graceful or not and whether the worker was Available,
\* Unavailable or Restarting.
C12_IdleStopRepliesTrue ==
    [][\A i \in Idx :
          ProcessesStop(i) /\ wk[i].conns = 0 =>
              /\ ~avail'[i][wk[i].gen]
              /\ result'[i] = "true"
              /\ wk'[i].pc = "done"]_vars

\* An idle worker stopped in the middle of a service restart has replied true.
C12_StoppedWhileRestarting ==
    \E i \in Idx :
        /\ wk[i].state = "Restarting"
        /\ wk[i].pc = "done"
        /\ wk[i].conns = 0
        /\ result[i] = "true"
        /\ ~avail[i][wk[i].gen]


\* C13: a worker that processes a non-graceful Stop while connections are in
\* flight sets its availability flag to false, moves every Available service
\* to Stopped and no other, replies false and terminates, all in that step
\* and without entering the Shutdown state.
C13_HardStopRepliesFalse ==
    [][\A i \in Idx :
          ProcessesStop(i) /\ wk[i].conns > 0 /\ ~Head(wk[i].rx2).graceful =>
              /\ ~avail'[i][wk[i].gen]
              /\ result'[i] = "false"
              /\ wk'[i].pc = "done"
              /\ wk'[i].state = wk[i].state
              /\ \A t \in DOMAIN wk[i].services :
                    wk'[i].services[t] =
                        IF wk[i].services[t].status = "Available"
                        THEN [wk[i].services[t] EXCEPT !.status = "Stopped"]
                        ELSE wk[i].services[t]]_vars

\* A hard-stopped worker: replied false, terminated, a service Stopped, a call
\* still in flight.
C13_HardStoppedInFlight ==
    \E i \in Idx :
        /\ wk[i].pc = "done"
        /\ wk[i].state # "Shutdown"
        /\ result[i] = "false"
        /\ wk[i].inflight # {}
        /\ \E t \in DOMAIN wk[i].services : wk[i].services[t].status = "Stopped"


\* Worker i has processed a hard Stop with connections in flight: it replied
\* false and terminated without entering the Shutdown state.
HardStopped(i) ==
    /\ wk[i].pc = "done"
    /\ wk[i].state # "Shutdown"
    /\ result[i] = "false"

\* C14: after a worker has processed a hard Stop with connections in flight,
\* no call in flight on it makes further progress: none of them runs to its end.
C14_NoProgressAfterHardStop ==
    [][\A i \in Idx : HardStopped(i) => \A c \in 1..MaxConns : ~Finishes(i, c)]_vars


\* Worker i installs the service its factory re-created: the poll that finds
\* the factory's future resolved and leaves WorkerState::Restarting.
Installs(i) ==
    /\ wk[i].state = "Restarting"
    /\ wk[i].fut = "Ok"
    /\ wk'[i].state = "Unavailable"
    /\ wk'[i].gen = wk[i].gen

\* C15: when the readiness check of slot t failed, the re-created service is
\* installed into slot t itself (a new instance, status Unavailable), and the
\* instance and the status of every other slot are as they were before.
C15_RestartInstallsFailedSlot ==
    [][\A i \in Idx :
          Installs(i) =>
              LET t == wk[i].rs.token
              IN /\ wk'[i].services[t] =
                        [wk[i].services[t] EXCEPT !.status = "Unavailable", !.inst = @ + 1]
                 /\ \A u \in DOMAIN wk[i].services \ {t} :
                        wk'[i].services[u] = wk[i].services[u]]_vars


\* C16: with two services bound one by one, whose first readiness check fails
\* and whose later checks succeed, every slot whose check failed is eventually
\* replaced by a fresh instance from its factory.
C16_EveryFailedSlotReplaced ==
    \A t \in Tokens :
        (/\ wk[1].factories = PerToken
         /\ t \in DOMAIN wk[1].services
         /\ wk[1].services[t].status = "Failed")
        ~> (t \in DOMAIN wk[1].services /\ wk[1].services[t].inst > 0)


\* C17: check_readiness reports the worker ready if and only if the counter
\* has spare capacity and every slot it polled answered Ready(Ok); a polled
\* slot answering Ok is marked Available, Pending Unavailable, Err Failed, and
\* the token of a slot answering Err is the restart trigger the round returns;
\* a slot in any other status is left as it is.
C17_CheckReadinessRound ==
    \A i \in Idx :
        Alive(wk[i]) /\ wk[i].services # <<>> =>
            LET w == wk[i]
                cr == CheckReadiness(w)
                polled == {t \in DOMAIN w.services :
                              w.services[t].status \in {"Available", "Unavailable"}}
            IN /\ (cr.failed = 0 /\ cr.ready) <=>
                      (w.conns < MaxConcurrent /\ \A t \in polled : w.ready[t] = "Ok")
               /\ \A t \in polled :
                      /\ w.ready[t] = "Ok" => cr.services[t].status = "Available"
                      /\ w.ready[t] = "Pending" => cr.services[t].status = "Unavailable"
                      /\ w.ready[t] = "Err" =>
                            cr.services[t].status = "Failed" /\ cr.failed = t
               /\ \A t \in DOMAIN w.services \ polled : cr.services[t] = w.services[t]


\* C18: with one worker, more clients than the connection cap and calls that
\* do not complete, the number of connections being served eventually becomes
\* exactly the cap and stays there: the worker dispatches until the cap is
\* reached and no other connection is dispatched to a service.
C18_ServedReachesCapAndStays ==
    <>[](/\ wk[1].conns = MaxConcurrent
         /\ Cardinality(wk[1].inflight) = MaxConcurrent)

\* The cap is reached while other clients wait: in the worker's channel, held
\* by the acceptor or in a listener's queue.
C18_CapReachedOthersWaiting ==
    /\ wk[1].conns = MaxConcurrent
    /\ Cardinality(wk[1].inflight) = MaxConcurrent
    /\ nextId + Waiting(NumTokens) = CapClients + 1
    /\ \E t \in Tokens : osq[t] > 0 /\ held[t] # None


\* The acceptor sends a connection to worker i.
SentTo(i) == Len(wk'[i].rx) > Len(wk[i].rx)

\* C19: the acceptor sends a connection only to a worker of the ring whose
\* availability flag reads true, and leaves the cursor just past a worker it
\* sent to; it holds a stream only when no worker of the ring reads available,
\* and then sends nothing; a listener with a held stream is deregistered, and
\* is registered again only when a WorkerAvailable interest is processed.
C19_SendOnlyToAvailable ==
    [][/\ \A i \in Idx :
             SentTo(i) =>
                 \E p \in DOMAIN ring :
                     ring[p].idx = i /\ avail[i][ring[p].gen]
       /\ (\E i \in Idx : SentTo(i)) =>
              \E p \in DOMAIN ring :
                  SentTo(ring[p].idx) /\ next' = (p % Len(ring)) + 1
       /\ \A t \in Tokens :
             /\ held'[t] # None /\ held'[t] # held[t] =>
                    /\ \A p \in DOMAIN ring : ~avail[ring[p].idx][ring[p].gen]
                    /\ \A i \in Idx : ~SentTo(i)
                    /\ next' = next
             /\ held'[t] # None => ~registered'[t]
             /\ ~registered[t] /\ registered'[t] =>
                    /\ wakeq # <<>>
                    /\ Head(wakeq).kind = "WorkerAvailable"
                    /\ wakeq' = Tail(wakeq)]_vars

\* A stream is held for a deregistered listener: a worker was sent connections
\* up to its cap, the cursor moved past it, and no flag reads true.
C19_HeldAfterRevolution ==
    \E t \in Tokens :
        /\ held[t] # None
        /\ ~registered[t]
        /\ next # 1
        /\ \E i \in Idx : wk[i].conns = MaxConcurrent
        /\ \A i \in Idx : ~avail[i][wk[i].gen]


\* The acceptor applies the interest at the head of the wake queue, a Worker(h).
AppliesWorker ==
    /\ accRunning
    /\ wakeq # <<>>
    /\ Head(wakeq).kind = "Worker"
    /\ wakeq' = Tail(wakeq)

\* C20: handling WorkerFaulted(idx) starts one replacement worker at idx, of
\* the same factories and with a fresh flag that reads false, leaves the other
\* workers alone and enqueues Worker(handle of the replacement); when the
\* acceptor applies that interest its ring holds exactly one handle for idx,
\* the replacement's; while the acceptor runs and the replacement lives its
\* handle is either on its way in the wake queue or in the ring, once; and the
\* ring never holds two handles of one index.
C20_OneReplacementPerIndex ==
    [][/\ Handles("WorkerFaulted") =>
              LET i == Head(cmds).idx
                  h == Handle(i, wk[i].gen + 1)
              IN /\ wk'[i].gen = h.gen
                 /\ wk'[i].pc = "starting"
                 /\ wk'[i].factories = wk[i].factories
                 /\ ~avail'[i][h.gen]
                 /\ wakeq' = Append(wakeq, WorkerInterest(h))
                 /\ \A j \in Idx \ {i} : wk'[j] = wk[j]
       /\ AppliesWorker =>
              LET h == Head(wakeq).h
              IN /\ Cardinality({p \in DOMAIN ring' : ring'[p].idx = h.idx}) = 1
                 /\ \E p \in DOMAIN ring' : ring'[p] = h
                 /\ h.gen = wk[h.idx].gen
       /\ \A i \in Idx :
              wk'[i].gen > 0 /\ Alive(wk'[i]) /\ accRunning' =>
                  LET h == Handle(i, wk'[i].gen)
                  IN Cardinality({p \in DOMAIN ring' : ring'[p] = h})
                       + Cardinality({p \in DOMAIN wakeq' :
                                         wakeq'[p] = WorkerInterest(h)}) = 1
       /\ \A p, q \in DOMAIN ring' : p # q => ring'[p].idx # ring'[q].idx]_vars

\* The ring holds the handle of a replacement worker, which has started.
C20_ReplacementInRing ==
    \E p \in DOMAIN ring :
        /\ ring[p].gen > 0
        /\ wk[ring[p].idx].gen = ring[p].gen
        /\ wk[ring[p].idx].pc # "starting"


\* The acceptor accepts the next connection.
Accepts == nextId' = nextId + 1

\* The handles of the ring whose worker is alive and reads available.
Takers ==
    {p \in DOMAIN ring : /\ avail[ring[p].idx][ring[p].gen]
                         /\ wk[ring[p].idx].gen = ring[p].gen
                         /\ Alive(wk[ring[p].idx])}

\* C21: with two workers of which one may die while serving, a connection
\* accepted while a live worker reads available is sent to a live worker, and
\* otherwise it is held: it never goes to the dead worker and is never lost;
\* and once the acceptor has reported the fault of the worker that died, its
\* replacement, with newly created services, eventually becomes available.
C21_SurvivorServesReplacementReturns ==
    /\ [][Accepts =>
             LET c == nextId
             IN /\ Takers # {} =>
                       \E i \in Idx :
                           /\ Alive(wk'[i])
                           /\ \E p \in DOMAIN wk'[i].rx : wk'[i].rx[p].id = c
                /\ Takers = {} => \E t \in Tokens : held'[t].id = c
                /\ \A i \in Idx : ~Alive(wk'[i]) => wk'[i].rx = <<>>]_vars
    /\ (\E p \in DOMAIN cmds : cmds[p] = WorkerFaulted(NumWorkers))
       ~> (/\ wk[NumWorkers].gen > 0
           /\ wk[NumWorkers].services # <<>>
           /\ \A t \in DOMAIN wk[NumWorkers].services :
                  wk[NumWorkers].services[t].inst = 0
           /\ avail[NumWorkers][wk[NumWorkers].gen])

\* The replacement of a worker that died is serving a connection.
C21_ReplacementServes ==
    \E i \in Idx :
        /\ wk[i].gen > 0
        /\ wk[i].inflight # {}
        /\ \E p \in DOMAIN ring : ring[p] = Handle(i, wk[i].gen)


\* C22: every Notify sender the controller has received is sent () when the
\* server has finished stopping, and never before.  The task of a Stop sends
\* the senders it took when the Stop was handled; at the step that completes
\* the first Stop, the senders received since then are still in the
\* controller's list and are not sent.
C22_NotifySentWhenStopped ==
    [][\A k \in DOMAIN stops :
          (stops[k].phase = "workers" /\ stops'[k].phase = "completed")
              => notify = 0]_vars


\* C23: the controller acknowledges a Pause or a Resume in the handler that
\* enqueues its interest: every acknowledgement is sent in a step that appends
\* the command's interest to the wake queue and leaves the acceptor as it is,
\* every handled Pause and Resume is acknowledged so, and nothing else sends an
\* acknowledgement.
C23_AckWithEnqueue ==
    [][/\ \A kind \in {"Pause", "Resume"} :
             Handles(kind) =>
                 /\ acks' = acks + 1
                 /\ wakeq' = Append(wakeq, IF kind = "Pause" THEN PauseInterest
                                                               ELSE ResumeInterest)
                 /\ UNCHANGED accVars
       /\ acks' # acks => Handles("Pause") \/ Handles("Resume")]_vars

\* C23 happens: a Pause is acknowledged and its interest still waits in the
\* queue of an acceptor that has not paused
C23_AckedNotApplied ==
    /\ acks > 0
    /\ ~paused
    /\ \E p \in DOMAIN wakeq : wakeq[p] = PauseInterest


\* C24: SIGINT and SIGQUIT are handled as a Stop with graceful = false and
\* SIGTERM as a Stop with graceful = true, each without a completion channel:
\* the handler enqueues the Stop interest and spawns the Stop task of that
\* mode.  Any other signal enqueues nothing and spawns nothing and leaves the
\* controller's state as it is.
C24_SignalsStop ==
    [][Handles("Signal") =>
          LET sig == Head(cmds).sig
          IN  IF sig \in {"Int", "Term", "Quit"}
              THEN /\ wakeq' = Append(wakeq, StopInterest(sig = "Term", Len(stops) + 1))
                   /\ Len(stops') = Len(stops) + 1
                   /\ stops'[Len(stops')].graceful = (sig = "Term")
                   /\ stops'[Len(stops')].completion = FALSE
                   /\ stops'[Len(stops')].phase = "acceptor"
                   /\ \A k \in DOMAIN stops : stops'[k] = stops[k]
              ELSE UNCHANGED <<wakeq, stops, notify, exit, acks, threads, builder, futures,
                               sysStopped>>]_vars

\* C24 happens: a SIGTERM was handled and its graceful Stop, which has no
\* completion channel, has completed
C24_TermStopped ==
    \E k \in DOMAIN stops :
        /\ stops[k].graceful
        /\ ~stops[k].completion
        /\ stops[k].phase \in {"completed", "exited"}


\* C25: the runtime is stopped only by the task of a Stop that has completed
\* (its completion and its notify senders were sent) and whose handler read
\* exit as true; the task of a Stop whose handler read exit as false never
\* stops it, whatever exit has become; and once a Stop whose handler read exit
\* as true has completed, the runtime is stopped.
C25_ExitAsSnapshotted ==
    /\ [][sysStopped' # sysStopped =>
             /\ sysStopped'
             /\ \E k \in DOMAIN stops :
                   /\ stops[k].phase = "completed"
                   /\ stops[k].exit
                   /\ stops'[k].phase = "exited"]_vars
    /\ [](\A k \in DOMAIN stops : stops[k].phase = "exited" => stops[k].exit)
    /\ \A k \in 1..ExitMaxCmds :
          (k \in DOMAIN stops /\ stops[k].phase = "completed" /\ stops[k].exit)
              ~> sysStopped

\* C25 happens: the runtime was stopped after a Stop completed
C25_RuntimeStopped ==
    /\ sysStopped
    /\ \E k \in DOMAIN stops : stops[k].phase = "exited" /\ stops[k].exit


\* The listeners a bind appended to the builder's sockets
Bound == SubSeq(builder'.sockets, Len(builder.sockets) + 1, Len(builder'.sockets))

\* What every bind does, whichever error it reports when no address bound: with
\* one address bound it succeeds and appends the listeners of exactly the
\* addresses that bound, in order; with none it fails with err(results), or
\* with the generic error when there was no address, and the builder's token,
\* sockets and services stay as they were.
BindReturns(results, err) ==
    LET oks == {p \in DOMAIN results : results[p] = "Ok"}
    IN IF oks # {}
       THEN /\ builder'.err = "none"
            /\ Len(Bound) = Cardinality(oks)
            /\ {Bound[p].lst : p \in DOMAIN Bound} = oks
            /\ \A p, q \in DOMAIN Bound : p < q => Bound[p].lst < Bound[q].lst
       ELSE /\ builder'.err = IF results = <<>> THEN "Can not bind to address."
                              ELSE err
            /\ builder'.token = builder.token
            /\ builder'.sockets = builder.sockets
            /\ builder'.services = builder.services

\* C26 as stated: bind_addr returns the listeners of all addresses that bound
\* when at least one did; when none did it returns the first error
\* encountered, or the generic error when the address resolved to nothing,
\* and no listener or token is added to the builder.
C26_FirstErrorSurfaces ==
    [][\A results \in BindInputs :
          Bind(results) => BindReturns(results, results[1])]_vars

\* C26, amended: when no address bound, bind_addr returns the last error
\* encountered; the rest as stated.
C26_LastErrorSurfaces ==
    [][\A results \in BindInputs :
          Bind(results) => BindReturns(results, results[Len(results)])]_vars

\* C26 happens: after a bind that succeeded, a bind of two addresses that
\* failed differently has returned the second error
C26_BindFailedTwice ==
    /\ builder.tried = <<"AddrInUse", "PermissionDenied">>
    /\ builder.err = "PermissionDenied"
    /\ builder.sockets # <<>>


C28_DeadlineForcesStopped ==
    [][\A i \in Idx :
          (wk[i].state = "Shutdown" /\ result[i] = "open" /\ result'[i] = "false")
              => /\ \A t \in DOMAIN wk'[i].services :
                       wk'[i].services[t].status = "Stopped"
                 /\ wk'[i].pc = "done"]_vars


\* The worker at index i is the one ServerBuilder::run started, and its
\* factories failed at startup: the task went on to poll it without a slot
StartFailed(i) ==
    /\ wk[i].gen = 0
    /\ wk[i].pc \notin {"absent", "starting"}
    /\ wk[i].services = <<>>

\* C29: a worker whose factories failed at startup never sets its
\* availability flag to true and never takes a call in flight, and the
\* controller comes to start a replacement for it.
C29_StartupErrorTerminates ==
    /\ [](\A i \in Idx : StartFailed(i) => ~avail[i][0])
    /\ [][\A i \in Idx : StartFailed(i) => wk'[i].inflight \subseteq wk[i].inflight]_vars
    /\ \A i \in Idx : StartFailed(i) ~> (wk[i].gen > 0)


\* The worker at index i, the one ServerBuilder::run started, panicked in
\* WorkerState::Restarting on the error of the factory's future
RestartFailed(i) ==
    /\ wk[i].gen = 0
    /\ wk[i].pc = "dead"
    /\ wk[i].state = "Restarting"
    /\ wk[i].fut = "Err"

\* C30: a worker whose factory future resolves with an error while it is
\* Restarting installs nothing and terminates with its availability flag
\* false, and the controller then starts a replacement at the same index.
C30_RestartErrorReplaced ==
    /\ [][\A i \in Idx :
             (wk[i].state = "Restarting" /\ wk[i].fut = "Err" /\ wk'[i].gen = wk[i].gen)
                 => /\ wk'[i].services = wk[i].services
                    /\ wk'[i].pc \in {wk[i].pc, "dead"}
                    /\ ~avail'[i][wk[i].gen]]_vars
    /\ \A i \in Idx : RestartFailed(i) ~> (wk[i].gen > 0)


\* C31: while a slot is Failed or Restarting because its service's readiness
\* fails after every restart, the worker is not Available, its flag is false
\* and it takes no call in flight; and every poll of the worker ends: a worker
\* that is in the middle of a poll comes to park or to terminate.
C31_FailingWorkerParks ==
    /\ [](\A i \in Idx : \A t \in DOMAIN wk[i].services :
             wk[i].services[t].status \in {"Failed", "Restarting"}
                 => /\ ~avail[i][wk[i].gen]
                    /\ wk[i].state # "Available")
    /\ [][\A i \in Idx : \A t \in DOMAIN wk[i].services :
             wk[i].services[t].status \in {"Failed", "Restarting"}
                 => wk'[i].inflight \subseteq wk[i].inflight]_vars
    /\ \A i \in Idx : (wk[i].pc = "entry") ~> (wk[i].pc # "entry")


\* C32: a worker whose availability flag is true is in WorkerState::Available,
\* never Unavailable, Restarting or Shutdown; every step that takes a worker
\* out of Available and every step that processes a StopCommand leaves the
\* flag false.
C32_FlagOnlyWhenAvailable ==
    /\ [](\A i \in Idx : avail[i][wk[i].gen] => wk[i].state = "Available")
    /\ [][\A i \in Idx :
             \/ (wk[i].state = "Available" /\ wk'[i].state # "Available")
             \/ ProcessesStop(i)
             => ~avail'[i][wk[i].gen]]_vars

\* C32 happens: a worker that was sent a connection while its flag was true
\* has left Available for Restarting, or was stopped gracefully with a call
\* in flight, and its flag is false
C32_LeftAvailable ==
    \E i \in Idx :
        /\ ~avail[i][wk[i].gen]
        /\ \/ wk[i].state = "Restarting" /\ wk[i].rx # <<>>
           \/ wk[i].state = "Shutdown" /\ wk[i].inflight # {}


\* C33: whenever a worker's availability flag is true, every one of its
\* service slots has status Available, also after two services failed their
\* readiness check in the same round; no connection is put in flight in a
\* worker with a slot that is Failed or Restarting.
C33_AvailableMeansAllSlotsAvailable ==
    /\ [](\A i \in Idx :
             avail[i][wk[i].gen] =>
                 \A t \in DOMAIN wk[i].services : wk[i].services[t].status = "Available")
    /\ [][\A i \in Idx :
             wk'[i].inflight \subseteq wk[i].inflight
             \/ \A t \in DOMAIN wk[i].services :
                   wk[i].services[t].status \notin {"Failed", "Restarting"}]_vars


\* C34: a worker replies true to a graceful Stop only when no connection sent
\* to it is left: at the step that sends true, its connection channel is empty
\* and no call is in flight.
C34_CleanStopLeavesNothing ==
    [][\A i \in Idx :
          (/\ result[i] = "open"
           /\ result'[i] = "true"
           /\ \/ wk[i].state = "Shutdown"
              \/ wk[i].rx2 # <<>> /\ Head(wk[i].rx2).graceful)
              => wk[i].rx = <<>> /\ wk[i].inflight = {}]_vars


\* The worker at index i has processed a StopCommand: it is in Shutdown, or it
\* has replied and terminated
StopProcessed(i) ==
    \/ wk[i].state = "Shutdown"
    \/ ~Alive(wk[i]) /\ result[i] \in {"true", "false"}

\* C35: a worker that has processed a StopCommand, graceful or not, takes no
\* connection from its channel and invokes no call in any later step: no call
\* comes in flight, the counter does not grow, and while the worker lives its
\* channel keeps what it holds, in the step that processes the StopCommand and
\* in every step after it.
C35_NoDispatchAfterStop ==
    [][\A i \in Idx :
          (ProcessesStop(i) \/ (StopProcessed(i) /\ wk'[i].gen = wk[i].gen))
              => /\ wk'[i].inflight \subseteq wk[i].inflight
                 /\ wk'[i].conns <= wk[i].conns
                 /\ Alive(wk'[i]) => wk'[i].rx = wk[i].rx]_vars

\* C35 happens: a worker in Shutdown has parked with a call in flight and a
\* connection waiting in its channel
C35_StoppedWithWaiting ==
    \E i \in Idx :
        /\ wk[i].state = "Shutdown"
        /\ wk[i].pc = "parked"
        /\ wk[i].rx # <<>>
        /\ wk[i].inflight # {}


\* C36: once the controller has handled a Stop command it starts no new
\* worker: a WorkerFaulted command handled after a Stop leaves the worker at
\* its index as it is.
C36_NoWorkerStartedAfterStop ==
    [][(Handles("WorkerFaulted") /\ stops # <<>>)
          => wk'[Head(cmds).idx] = wk[Head(cmds).idx]]_vars


TransformNext ==
    \/ NewService
    \/ \E rs \in FutureAnswers, rt \in FutureAnswers : TransformPoll(rs, rt)

TransformSpec == Run(1) /\ [][TransformNext]_vars

\* C38: the ApplyTransformFuture polls the inner factory's future first and
\* the transform's future only after it, never the inner one again; an
\* error of the inner future is what the poll returns, with new_transform
\* never called; on a service new_transform is called exactly once, with
\* that service, and the state is B from then on; in B the poll returns
\* what the transform's future answers.
C38_TransformAfterInner ==
    /\ [](LET f == futures.transform
          IN /\ f.polled # <<>> => f.polled[1] = "S"
             /\ \A p, q \in DOMAIN f.polled :
                    p < q /\ f.polled[p] = "T" => f.polled[q] = "T"
             /\ (\E p \in DOMAIN f.polled : f.polled[p] = "T") => f.state = "B"
             /\ Len(f.calls) <= 1
             /\ f.state = "B" <=> f.calls # <<>>
             /\ f.calls # <<>> => f.sout.kind = "Ok" /\ f.calls = <<f.sout.v>>
             /\ f.sout.kind = "Err" => f.out = f.sout /\ f.calls = <<>>
             /\ f.sout.kind = "Pending" => f.out = Pending /\ f.calls = <<>>
             /\ f.state = "B" => f.out = f.tout)
    /\ [][futures.transform.state = "B" => futures'.transform.state = "B"]_vars

\* C38 happens: the inner future was pending, then gave service 2; the
\* transform's future was pending, then resolved with a transform
C38_TransformResolved ==
    /\ futures.transform.polled = <<"S", "S", "T", "T">>
    /\ futures.transform.calls = <<2>>
    /\ futures.transform.out.kind = "Ok"


\* A response of ConnectService or TcpConnectService polled until it resolves
ConnectNext ==
    \/ \E kind \in {"Connect", "Tcp"} : ServiceCall(kind)
    \/ \E rr \in ResolverAnswers, rc \in ConnectorAnswers : ResponsePoll(rr, rc)

ConnectSpec == Run(1) /\ [][ConnectNext]_vars

\* C39: both connect responses go from Resolve to Connect and never back;
\* TcpConnector::call is made only once the resolver answered Ok, with what
\* it answered, and at most once; the resolver's future is not polled again
\* after it; a resolver error is what the poll returns, with no connect
\* attempt; and the panic!() after the move to Connect is never reached.
C39_ResolveThenConnectOnce ==
    /\ [](LET c == futures.connect
          IN /\ ~c.panicked
             /\ \A p, q \in DOMAIN c.polled :
                    p < q /\ c.polled[p] = "C" => c.polled[q] = "C"
             /\ Len(c.calls) <= 1
             /\ c.state = "Connect" <=> c.calls # <<>>
             /\ c.calls # <<>> => c.rout.kind = "Ok" /\ c.calls = <<c.rout.v>>
             /\ (\E p \in DOMAIN c.polled : c.polled[p] = "C") => c.calls # <<>>
             /\ c.rout.kind = "Err" =>
                    /\ c.out = c.rout
                    /\ c.calls = <<>>
                    /\ \A p \in DOMAIN c.polled : c.polled[p] = "R")
    /\ [][futures.connect.state = "Connect" => futures'.connect.state = "Connect"]_vars

\* C39 happens: a TcpConnectService response whose resolver was pending,
\* then resolved; the connector was called once and gave a stream
C39_TcpConnected ==
    /\ futures.connect.kind = "Tcp"
    /\ futures.connect.polled = <<"R", "R", "C">>
    /\ futures.connect.calls = <<2>>
    /\ futures.connect.out = Ok(1)


\* ------------------------------------------------------------------ C40
\* C40: the reply sender of a StopCommand the worker has taken from its
\* channel is never dropped unanswered, and a reply once given stays: every
\* command taken gets exactly one boolean reply, a second command that comes
\* during the shutdown included.
C40_EveryStopAnswered ==
    [][\A i \in Idx :
          /\ result[i] = "open" /\ result'[i] = "dropped" =>
                 \E p \in DOMAIN wk[i].rx2 : wk[i].rx2[p].n = 1
          /\ result2[i] = "open" /\ result2'[i] = "dropped" =>
                 \E p \in DOMAIN wk[i].rx2 : wk[i].rx2[p].n = 2
          /\ result[i] \in {"true", "false"} => result'[i] = result[i]
          /\ result2[i] \in {"true", "false"} => result2'[i] = result2[i]]_vars

====
